---- MODULE Spec2Model ----
(***************************************************************************)
(* Trading-history completeness reconciler of polygon_project:             *)
(*   maintenance/trading_history_repair_major.py  (scan, validate, delete  *)
(*                                                  and rebuild)           *)
(*   maintenance/trading_history_repair_minor.py  (scan, validate, fetch   *)
(*                                                  only missing months)   *)
(*   workflows/stocks/stocks_trading_history.py   (monthly download loop   *)
(*                                                  and partition writer)  *)
(* Dates are <<year, month, day>>; names are sequences of one-character    *)
(* strings, so that formatting and the scanner's regular expression are    *)
(* computed character by character.                                        *)
(***************************************************************************)
EXTENDS Integers, Sequences, FiniteSets, TLC

(***************************************************************************)
(* Bounds of the model.                                                    *)
(***************************************************************************)
\* number of calendar months in the window SpecWalk draws its dates from
WalkMonths == 5
\* longest ticker SpecName formats
MaxTickerLen == 2
\* most entries (partition, debug and foreign files) on disk at the start
MaxFiles == 2
\* most operations (an os.remove, the fetch of a chunk) that fail in one run
MaxFailures == 1

(***************************************************************************)
(* Calendar arithmetic: datetime and dateutil.relativedelta.               *)
(***************************************************************************)
IsLeap(y) == (y % 4 = 0 /\ y % 100 # 0) \/ y % 400 = 0

DaysInMonth(y, m) ==
    IF m = 2 THEN (IF IsLeap(y) THEN 29 ELSE 28)
    ELSE IF m \in {4, 6, 9, 11} THEN 30 ELSE 31

IsDate(d) == /\ d[1] >= 1
             /\ d[2] \in 1..12
             /\ d[3] >= 1
             /\ d[3] <= DaysInMonth(d[1], d[2])

\* the order of datetime values: d1 < d2 iff DateKey(d1) < DateKey(d2)
DateKey(d) == d[1] * 10000 + d[2] * 100 + d[3]

\* date.replace(day=1)
ReplaceDay1(d) == <<d[1], d[2], 1>>

\* d + relativedelta(months=k): the month moves, the day is cut to the
\* length of the month reached
AddMonths(d, k) ==
    LET t == d[1] * 12 + (d[2] - 1) + k
        y == t \div 12
        m == (t % 12) + 1
        dim == DaysInMonth(y, m)
    IN  <<y, m, IF d[3] > dim THEN dim ELSE d[3]>>

\* d - relativedelta(days=1)
MinusOneDay(d) ==
    IF d[3] > 1 THEN <<d[1], d[2], d[3] - 1>>
    ELSE IF d[2] > 1 THEN <<d[1], d[2] - 1, DaysInMonth(d[1], d[2] - 1)>>
    ELSE <<d[1] - 1, 12, 31>>

\* d + 1 day
PlusOneDay(d) ==
    IF d[3] < DaysInMonth(d[1], d[2]) THEN <<d[1], d[2], d[3] + 1>>
    ELSE IF d[2] < 12 THEN <<d[1], d[2] + 1, 1>>
    ELSE <<d[1] + 1, 1, 1>>

RECURSIVE RelMonthsLoop(_, _, _)
RelMonthsLoop(dt1, dt2, months) ==
    IF DateKey(dt1) < DateKey(AddMonths(dt2, months))
    THEN RelMonthsLoop(dt1, dt2, months - 1)
    ELSE months

\* r = relativedelta(dt1, dt2) for dt1 >= dt2; the value r.years * 12 + r.months
RelativeDeltaMonths(dt1, dt2) ==
    RelMonthsLoop(dt1, dt2, (dt1[1] - dt2[1]) * 12 + (dt1[2] - dt2[2]))

(***************************************************************************)
(* Text: strftime, strptime, str.replace and the names of partition files. *)
(***************************************************************************)
Digits == <<"0", "1", "2", "3", "4", "5", "6", "7", "8", "9">>

IsDigit(c) == \E i \in 1..10 : Digits[i] = c

DigitVal(c) == (CHOOSE i \in 1..10 : Digits[i] = c) - 1

Pad2(n) == <<Digits[((n \div 10) % 10) + 1], Digits[(n % 10) + 1]>>

Pad4(n) == Pad2(n \div 100) \o Pad2(n % 100)

\* d.strftime('%Y-%m-%d')
StrfTime(d) == Pad4(d[1]) \o <<"-">> \o Pad2(d[2]) \o <<"-">> \o Pad2(d[3])

NoDate == <<0, 0, 0>>

\* datetime.strptime(s, '%Y-%m-%d') of a text of the shape dddd-dd-dd;
\* NoDate stands for the ValueError of a text that is no calendar date
StrpTime(s) ==
    LET y == DigitVal(s[1]) * 1000 + DigitVal(s[2]) * 100
             + DigitVal(s[3]) * 10 + DigitVal(s[4])
        m == DigitVal(s[6]) * 10 + DigitVal(s[7])
        d == DigitVal(s[9]) * 10 + DigitVal(s[10])
    IN  IF IsDate(<<y, m, d>>) THEN <<y, m, d>> ELSE NoDate

\* s.replace(a, b) for one-character a and b
Replace(s, a, b) == [i \in 1..Len(s) |-> IF s[i] = a THEN b ELSE s[i]]

STR_to == <<"_", "t", "o", "_">>
STR_parquet == <<"p", "a", "r", "q", "u", "e", "t">>
STR_csv == <<"c", "s", "v">>
STR_DEBUG_csv == <<"_", "D", "E", "B", "U", "G", ".", "c", "s", "v">>
STR_tick == <<"t", "i", "c", "k">>
STR_day == <<"d", "a", "y">>
STR_1_day == <<"1", " ", "d", "a", "y">>
STR_1_minute == <<"1", " ", "m", "i", "n", "u", "t", "e">>

\* s[p .. p+Len(t)-1] = t
HasAt(s, p, t) ==
    /\ p >= 1
    /\ p + Len(t) - 1 <= Len(s)
    /\ \A i \in 1..Len(t) : s[p + i - 1] = t[i]

\* \d{4}-\d{2}-\d{2} at position p
DateShapeAt(s, p) ==
    /\ p >= 1
    /\ p + 9 <= Len(s)
    /\ \A i \in {0, 1, 2, 3, 5, 6, 8, 9} : IsDigit(s[p + i])
    /\ s[p + 4] = "-"
    /\ s[p + 7] = "-"

\* _(\d{4}-\d{2}-\d{2})_to_(\d{4}-\d{2}-\d{2})\.(parquet|csv) at position p
TailAt(s, p) ==
    /\ HasAt(s, p, <<"_">>)
    /\ DateShapeAt(s, p + 1)
    /\ HasAt(s, p + 11, STR_to)
    /\ DateShapeAt(s, p + 15)
    /\ HasAt(s, p + 25, <<".">>)
    /\ (HasAt(s, p + 26, STR_parquet) \/ HasAt(s, p + 26, STR_csv))

\* the splits the pattern allows: group 1 is s[1..i], group 2 is s[i+2..j]
\* ('.' matches every character but a line break, and names hold none)
PatternSplits(s) ==
    LET under == {i \in 1..(Len(s) - 1) : s[i + 1] = "_"}
        tails == {j \in 1..(Len(s) - 1) : TailAt(s, j + 1)}
    IN  {ij \in under \X tails : ij[2] >= ij[1] + 2}

NoMatch == <<>>

\* file_pattern.match(s): both groups are lazy, so the backtracking search
\* takes the shortest group 1 and, for it, the shortest group 2; the match is
\* anchored at the start of the name only. The result is the five groups.
FilePatternMatch(s) ==
    LET splits == PatternSplits(s)
    IN  IF splits = {} THEN NoMatch
        ELSE LET i == CHOOSE a \in {ij[1] : ij \in splits} :
                          \A b \in {ij[1] : ij \in splits} : a <= b
                 j == CHOOSE a \in {ij[2] : ij \in {x \in splits : x[1] = i}} :
                          \A b \in {ij[2] : ij \in {x \in splits : x[1] = i}} : a <= b
             IN  <<SubSeq(s, 1, i),
                   SubSeq(s, i + 2, j),
                   SubSeq(s, j + 2, j + 11),
                   SubSeq(s, j + 16, j + 25),
                   IF HasAt(s, j + 27, STR_parquet) THEN STR_parquet ELSE STR_csv>>

\* fidelity.replace(" ", "-"): the folder of a fidelity
FidelityFolder(fidelity) == Replace(fidelity, " ", "-")

\* mutant: the folder name is used as the fidelity, hyphens and all
FidelityForApi_Same(fidelity_folder) == fidelity_folder

\* fidelity_folder.replace("-", " "): the fidelity of a folder
FidelityForApi(fidelity_folder) == Replace(fidelity_folder, "-", " ")

\* f"{ticker}_{fidelity_folder}_{start}_to_{end}" followed by "." and the
\* extension; start and end are texts
PartitionFileName(ticker, fidelity, start_str, end_str, ext) ==
    ticker \o <<"_">> \o FidelityFolder(fidelity) \o <<"_">> \o start_str
           \o STR_to \o end_str \o <<".">> \o ext

\* f"{ticker}_{fidelity_folder}_DEBUG.csv"
DebugFileName(ticker, fidelity) ==
    ticker \o <<"_">> \o FidelityFolder(fidelity) \o STR_DEBUG_csv

\* workflow_helpers.parse_historical_fidelity(fidelity)[1]: the timespan of a
\* fidelity ("" when it cannot be parsed)
ParseHistoricalFidelity(fidelity) ==
    IF fidelity = STR_tick THEN "tick"
    ELSE IF fidelity = STR_day \/ fidelity = STR_1_day THEN "day"
    ELSE IF fidelity = STR_1_minute THEN "minute"
    ELSE ""

\* mutant: the detector expects parquet for every fidelity
FileExtension_Parquet(fidelity) == STR_parquet

\* file_extension = ".parquet" if timespan != "day" else ".csv" (without the dot)
FileExtension(fidelity) ==
    IF ParseHistoricalFidelity(fidelity) # "day" THEN STR_parquet ELSE STR_csv

(***************************************************************************)
(* The month walker shared by the validators and the download loop.        *)
(***************************************************************************)
\* chunk_start = current_date.replace(day=1), pulled forward to lo
ChunkStart(current_date, lo) ==
    LET chunk_start == ReplaceDay1(current_date)
    IN  IF DateKey(chunk_start) < DateKey(lo) THEN lo ELSE chunk_start

\* mutant: the end of the chunk is not pulled back
ChunkEnd_NoClamp(current_date, hi) == MinusOneDay(AddMonths(ReplaceDay1(current_date), 1))

\* chunk_end = chunk_start + relativedelta(months=1) - relativedelta(days=1),
\* pulled back to hi
ChunkEnd(current_date, hi) ==
    LET chunk_end == MinusOneDay(AddMonths(ReplaceDay1(current_date), 1))
    IN  IF DateKey(chunk_end) > DateKey(hi) THEN hi ELSE chunk_end

\* mutant: the month is advanced without going back to its first day
NextMonth_KeepDay(current_date) == AddMonths(current_date, 1)

\* current_date = current_date.replace(day=1) + relativedelta(months=1)
NextMonth(current_date) == AddMonths(ReplaceDay1(current_date), 1)

RECURSIVE WalkFrom(_, _, _)
WalkFrom(current_date, lo, hi) ==
    IF DateKey(current_date) <= DateKey(hi)
    THEN <<<<ChunkStart(current_date, lo), ChunkEnd(current_date, hi)>>>>
         \o WalkFrom(NextMonth(current_date), lo, hi)
    ELSE <<>>

\* the (chunk_start, chunk_end) pairs of the loop 'while current_date <= today'
ExpectedChunks(min_start_date, today_) == WalkFrom(min_start_date, min_start_date, today_)

(***************************************************************************)
(* State.                                                                  *)
(***************************************************************************)
VARIABLES
    today,                      \* datetime.now() of the run, as a date
    disk,                       \* the files under trading_history_root: paths
    pc,                         \* position of the running tool
    discovered_jobs,            \* the dict of the scan, in insertion order
    job_index,                  \* index of the loop over jobs or downloads
    report,                     \* what stage 2 printed for each job
    incomplete_jobs_to_fix,     \* major: list of job_details
    missing_files_to_download,  \* minor: list of download jobs
    files_left,                 \* major, stage 3a: files of the loop not yet visited
    job_frame,                  \* locals of _process_trading_history_job
    chunks,                     \* (chunk_start, chunk_end) of the running download, in order
    calls,                      \* arguments of every _process_trading_history_job call
    removed,                    \* paths os.remove has deleted
    remove_errors,              \* paths for which os.remove raised
    written,                    \* paths the partition writer has written
    failures,                   \* operations that have failed so far in the run
    name_case,                  \* SpecName: the fields to format
    name_text,                  \* SpecName: the formatted file name
    name_match                  \* SpecName: the groups file_pattern.match returns

\* state of the other programs of the repository
VARIABLES
    size_threshold_percent,     \* anomaly detector: the threshold it was called with
    getsize,                    \* anomaly detector: os.path.getsize of every file
    sorted_files,               \* anomaly detector: the files of the running job, sorted
    file_index,                 \* anomaly detector: i of the loop over sorted_files
    comparisons,                \* anomaly detector: every comparison_size computed
    anomalies                   \* anomaly detector: the list of anomaly records

anomalyVars == <<size_threshold_percent, getsize, sorted_files, file_index,
                 comparisons, anomalies>>

VARIABLES
    targets,                    \* target workflow: the rows of stock_ticker_targets.csv
    job_processor_func,         \* target workflow: the processor it was called with
    target_index,               \* target workflow: the next row of 'for job in targets'
    api_index,                  \* target workflow: the next entry of the processor's dict
    processor_calls,            \* target workflow: every call of job_processor_func
    csv_saved                   \* target workflow: the CSV files the processors saved

workflowVars == <<targets, job_processor_func, target_index, api_index,
                  processor_calls, csv_saved>>

VARIABLES
    tool,                       \* the maintenance tool that runs as __main__
    base_output_path,           \* config.ini: base_output_path ("None" without the key)
    POLYGON_API_KEY,            \* .env: the API key ("" when it is not set)
    config_reports,             \* the messages printed about the configuration
    exit_code,                  \* the exit status of the process (-1 while it runs)
    ERRORS,                     \* error_logger._ERRORS
    IS_REGISTERED,              \* error_logger._IS_REGISTERED
    atexit_funcs,               \* the functions handed to atexit.register, in order
    register_calls,             \* calls of register_error_handler so far
    error_log,                  \* stocks_trading_history_error_log.csv
    save_messages               \* what the calls of save_errors_to_csv printed

configVars == <<tool, base_output_path, POLYGON_API_KEY, config_reports, exit_code>>
loggerVars == <<ERRORS, IS_REGISTERED, atexit_funcs, register_calls, error_log,
                save_messages>>

VARIABLES
    download_jobs,              \* filings download: the rows of the download list
    filing_results,             \* filings download: what became of every row
    thread_errors               \* filings download: rows whose future raised

filingsVars == <<download_jobs, filing_results, thread_errors>>

VARIABLES
    helper,                     \* request: the api_handler function that sends it
    attempt,                    \* request: attempts made so far
    responses,                  \* request: what every attempt met, in order
    sleeps,                     \* request: every time.sleep, in milliseconds
    request_logs,               \* request: the lines written to the log
    request_result,             \* request: "pending", or what the function returned
    sec_targets,                \* fetch_filings: the rows of the input CSV
    discover_index,             \* fetch_filings: the next row of the discovery loop
    all_filings_metadata,       \* fetch_filings: the filings discovered so far
    submitted,                  \* fetch_filings: filings handed to executor.submit, in order
    extracted,                  \* fetch_filings: the outcome of every task the worker finished
    collected,                  \* fetch_filings: futures main has taken from as_completed
    jsonl_saved                 \* fetch_filings: filings whose records were saved

requestVars == <<helper, attempt, responses, sleeps, request_logs, request_result>>
secVars == <<sec_targets, discover_index, all_filings_metadata, submitted, extracted,
             collected, jsonl_saved>>

VARIABLES
    running,                    \* fetch_filings: the task the worker thread runs, or 0
    interrupt,                  \* fetch_filings: "none", or where a KeyboardInterrupt ended
    cancelled                   \* fetch_filings: the futures shutdown has cancelled

interruptVars == <<running, interrupt, cancelled>>

VARIABLES
    screener,                   \* batch scan: the program that runs
    total_tickers,              \* batch scan: len(tickers_files_list); ticker k is its k-th item
    batch_start,                \* batch scan: i of 'for i in range(0, total_tickers, BATCH_SIZE)'
    executors,                  \* batch scan: the batch starts whose process pool is alive
    pool_broken,                \* batch scan: a worker process of the live pool has died
    future_state,               \* batch scan: the state of the latest future of every ticker
    future_to_ticker,           \* batch scan: the tickers submitted to the live pool
    submit_count,               \* batch scan: how often every ticker was submitted
    taken,                      \* batch scan: futures as_completed has yielded
    all_results,                \* batch scan: all_results / all_metrics
    aborted                     \* batch scan: the run returned on BrokenProcessPool

batchVars == <<screener, total_tickers, batch_start, executors, pool_broken, future_state,
               future_to_ticker, submit_count, taken, all_results, aborted>>

VARIABLES
    debug_callback,             \* stream: the callback handed to the save of this chunk
    stream_pages,               \* stream: the pages the generator has yielded for this chunk
    stream_ends,                \* stream: how the generator of every chunk ended
    file_pages,                 \* stream: the pages every partition file holds, in order
    debug_saves,                \* stream: every write of the debug sample
    stream_logs                 \* stream: the lines _execute_session_get has logged

streamVars == <<debug_callback, stream_pages, stream_ends, file_pages, debug_saves,
                stream_logs>>
moreVars == <<batchVars, streamVars>>
extraVars == <<interruptVars, moreVars>>
restVars == <<requestVars, secVars, extraVars>>
notWorkflowVars == <<configVars, loggerVars, filingsVars, restVars>>
notLoggerVars == <<workflowVars, filingsVars, restVars>>
programVars == <<workflowVars, configVars, loggerVars, filingsVars, restVars>>
laterVars == <<anomalyVars, programVars>>

toolVars == <<today, disk, pc, discovered_jobs, job_index, report,
              incomplete_jobs_to_fix, missing_files_to_download, files_left,
              calls, removed, remove_errors, written, failures>>
frameVars == <<job_frame, chunks>>
nameVars == <<name_case, name_text, name_match>>
vars == <<toolVars, frameVars, nameVars, laterVars>>

AnomalyIdle ==
    /\ size_threshold_percent = 0
    /\ getsize = <<>>
    /\ sorted_files = <<>>
    /\ file_index = 0
    /\ comparisons = <<>>
    /\ anomalies = <<>>

WorkflowIdle ==
    /\ targets = <<>>
    /\ job_processor_func = ""
    /\ target_index = 0
    /\ api_index = 0
    /\ processor_calls = <<>>
    /\ csv_saved = {}

\* 'if not base_output_path': the key is absent (None) or its value is empty
NoPath(path) == path \in {"None", ""}

\* the tools below run with a configured base output path and API key
ConfigIdle ==
    /\ tool = ""
    /\ base_output_path = "data"
    /\ POLYGON_API_KEY = "key"
    /\ config_reports = <<>>
    /\ exit_code = -1

NoErrorLog == [exists |-> FALSE, rows |-> <<>>]

LoggerIdle ==
    /\ ERRORS = <<>>
    /\ IS_REGISTERED = FALSE
    /\ atexit_funcs = <<>>
    /\ register_calls = 0
    /\ error_log = NoErrorLog
    /\ save_messages = <<>>

FilingsIdle ==
    /\ download_jobs = <<>>
    /\ filing_results = <<>>
    /\ thread_errors = {}

RequestIdle ==
    /\ helper = ""
    /\ attempt = 0
    /\ responses = <<>>
    /\ sleeps = <<>>
    /\ request_logs = <<>>
    /\ request_result = "pending"

SecIdle ==
    /\ sec_targets = <<>>
    /\ discover_index = 0
    /\ all_filings_metadata = <<>>
    /\ submitted = <<>>
    /\ extracted = <<>>
    /\ collected = {}
    /\ jsonl_saved = {}

InterruptIdle ==
    /\ running = 0
    /\ interrupt = "none"
    /\ cancelled = {}

BatchIdle ==
    /\ screener = ""
    /\ total_tickers = 0
    /\ batch_start = 0
    /\ executors = {}
    /\ pool_broken = FALSE
    /\ future_state = <<>>
    /\ future_to_ticker = {}
    /\ submit_count = <<>>
    /\ taken = {}
    /\ all_results = <<>>
    /\ aborted = FALSE

StreamIdle ==
    /\ debug_callback = FALSE
    /\ stream_pages = <<>>
    /\ stream_ends = <<>>
    /\ file_pages = <<>>
    /\ debug_saves = <<>>
    /\ stream_logs = <<>>

MoreIdle == BatchIdle /\ StreamIdle

ExtraIdle == InterruptIdle /\ MoreIdle

RestIdle == RequestIdle /\ SecIdle /\ ExtraIdle

ProgramIdle == WorkflowIdle /\ ConfigIdle /\ LoggerIdle /\ FilingsIdle /\ RestIdle

LaterIdle == AnomalyIdle /\ ProgramIdle

NoFrame == [running |-> FALSE]
NoName == <<>>

ToolIdle ==
    /\ today = NoDate
    /\ disk = {}
    /\ pc = "idle"
    /\ discovered_jobs = <<>>
    /\ job_index = 0
    /\ report = <<>>
    /\ incomplete_jobs_to_fix = <<>>
    /\ missing_files_to_download = <<>>
    /\ files_left = {}
    /\ calls = <<>>
    /\ removed = {}
    /\ remove_errors = {}
    /\ written = {}
    /\ failures = 0

NameIdle ==
    /\ name_case = NoName
    /\ name_text = NoName
    /\ name_match = NoName

(***************************************************************************)
(* SpecWalk: the month loop of _process_trading_history_job (and of the    *)
(* two validators) over every pair of days of a window of calendar months. *)
(***************************************************************************)
\* the window starts in December, so that it crosses a year end, and holds
\* February of a common year (2023) or of a leap year (2024)
WalkYears == {2023, 2024}

WalkDays(y) ==
    {d \in {AddMonths(<<y - 1, 12, 1>>, k) : k \in 0..(WalkMonths - 1)}
              \X (1..31) : d[2] <= DaysInMonth(d[1][1], d[1][2])}

WalkDates(y) == {<<d[1][1], d[1][2], d[2]>> : d \in WalkDays(y)}

WalkInit ==
    /\ \E y \in WalkYears : \E lo \in WalkDates(y) : \E hi \in WalkDates(y) :
          /\ DateKey(lo) <= DateKey(hi)
          /\ job_frame = [running |-> TRUE,
                          overall_start_date |-> lo,
                          overall_end_date |-> hi,
                          current_date |-> lo]
    /\ chunks = <<>>
    /\ ToolIdle
    /\ NameIdle
    /\ LaterIdle

\* one iteration of 'while current_date <= overall_end_date'
WalkStep ==
    /\ job_frame.running
    /\ DateKey(job_frame.current_date) <= DateKey(job_frame.overall_end_date)
    /\ chunks' = Append(chunks,
                        <<ChunkStart(job_frame.current_date, job_frame.overall_start_date),
                          ChunkEnd(job_frame.current_date, job_frame.overall_end_date)>>)
    /\ job_frame' = [job_frame EXCEPT !.current_date = NextMonth(job_frame.current_date)]
    /\ UNCHANGED <<toolVars, nameVars>>
    /\ UNCHANGED laterVars

\* the loop condition fails: the walk is over
WalkDone ==
    /\ job_frame.running
    /\ DateKey(job_frame.current_date) > DateKey(job_frame.overall_end_date)
    /\ job_frame' = [job_frame EXCEPT !.running = FALSE]
    /\ UNCHANGED <<chunks, toolVars, nameVars>>
    /\ UNCHANGED laterVars

WalkNext == WalkStep \/ WalkDone

SpecWalk == WalkInit /\ [][WalkNext]_vars

\* C1: when the walk over [lo, hi] is over, its chunks (s_1,e_1)..(s_n,e_n)
\* have s_1 = lo, e_n = hi, s_i <= e_i, and s_(i+1) = e_i + 1 day: they cover
\* [lo, hi] with no gap and no overlap, whatever the lengths of the months.
C1_MonthTiling ==
    (job_frame # NoFrame /\ ~job_frame.running) =>
        /\ Len(chunks) >= 1
        /\ chunks[1][1] = job_frame.overall_start_date
        /\ chunks[Len(chunks)][2] = job_frame.overall_end_date
        /\ \A i \in 1..Len(chunks) : DateKey(chunks[i][1]) <= DateKey(chunks[i][2])
        /\ \A i \in 1..(Len(chunks) - 1) : chunks[i + 1][1] = PlusOneDay(chunks[i][2])

\* a finished walk from mid-January over the 29 days of February 2024 into March
C1_Witness ==
    /\ job_frame # NoFrame
    /\ ~job_frame.running
    /\ chunks = << <<<<2024, 1, 15>>, <<2024, 1, 31>>>>,
                   <<<<2024, 2, 1>>, <<2024, 2, 29>>>>,
                   <<<<2024, 3, 1>>, <<2024, 3, 10>>>> >>

(***************************************************************************)
(* SpecName: a partition file name is formatted as the writer formats it   *)
(* and then matched as the scanner matches it.                             *)
(***************************************************************************)
RECURSIVE TextsUpTo(_, _)
TextsUpTo(alphabet, n) ==
    IF n = 0 THEN {<<>>}
    ELSE LET shorter == TextsUpTo(alphabet, n - 1)
         IN  shorter \cup {Append(t, c) : t \in shorter, c \in alphabet}

\* tickers are not validated anywhere: letters, and the separator of the name
NameTickers == TextsUpTo({"A", "_"}, MaxTickerLen) \ {<<>>}

\* the fidelities the download job accepts
Fidelities == {STR_tick, STR_1_day, STR_1_minute}

NameDates == {<<2023, 12, 5>>, <<2024, 1, 1>>, <<2024, 1, 31>>,
              <<2024, 2, 29>>, <<2024, 10, 10>>}

NameInit ==
    /\ \E t \in NameTickers, f \in Fidelities, s \in NameDates, e \in NameDates,
          x \in {STR_csv, STR_parquet} :
          /\ DateKey(s) <= DateKey(e)
          /\ name_case = [ticker |-> t, fidelity |-> f, start |-> s, end |-> e, ext |-> x]
    /\ name_text = NoName
    /\ name_match = NoName
    /\ job_frame = NoFrame
    /\ chunks = <<>>
    /\ ToolIdle
    /\ LaterIdle

\* _save_trading_history_data builds the name of the file it writes
FormatName ==
    /\ name_text = NoName
    /\ name_text' = PartitionFileName(name_case.ticker, name_case.fidelity,
                                      StrfTime(name_case.start), StrfTime(name_case.end),
                                      name_case.ext)
    /\ UNCHANGED <<name_case, name_match, toolVars, frameVars>>
    /\ UNCHANGED laterVars

\* the scanner matches the name and reads its groups
MatchName ==
    /\ name_text # NoName
    /\ name_match = NoName
    /\ LET m == FilePatternMatch(name_text)
       IN  name_match' =
             IF m = NoMatch THEN [matched |-> FALSE]
             ELSE [matched |-> TRUE,
                   ticker |-> m[1],
                   fidelity |-> FidelityForApi(m[2]),
                   start |-> StrpTime(m[3]),
                   end |-> StrpTime(m[4]),
                   ext |-> m[5]]
    /\ UNCHANGED <<name_case, name_text, toolVars, frameVars>>
    /\ UNCHANGED laterVars

NameNext == FormatName \/ MatchName

SpecName == NameInit /\ [][NameNext]_vars

NameRecovered ==
    /\ name_match.matched
    /\ name_match.ticker = name_case.ticker
    /\ name_match.fidelity = name_case.fidelity
    /\ name_match.start = name_case.start
    /\ name_match.end = name_case.end

IsTickerDir(d, t) == \E p \in d : Len(p) >= 2 /\ p[1] = t

\* os.path.isdir(fidelity_path)
IsFidelityDir(d, t, f) == \E p \in d : Len(p) = 3 /\ p[1] = t /\ p[2] = f

\* the files the three nested os.listdir loops keep: 'if match:'
MatchingFiles(d) ==
    {p \in d : /\ Len(p) = 3
               /\ IsTickerDir(d, p[1])
               /\ IsFidelityDir(d, p[1], p[2])
               /\ FilePatternMatch(p[3]) # NoMatch}

\* mutant: the job key keeps the folder name of the fidelity
JobKeyOf_NoReplace(p) == <<p[1], p[2]>>

\* job_key = (ticker_folder, fidelity_folder.replace("-", " "))
JobKeyOf(p) == <<p[1], FidelityForApi(p[2])>>

\* discovered_jobs[job_key].append(os.path.join(fidelity_path, filename))
ScanJobs(d) ==
    LET matching == MatchingFiles(d)
    IN  {[job_key |-> k, file_paths |-> {p \in matching : JobKeyOf(p) = k}] :
            k \in {JobKeyOf(p) : p \in matching}}

\* os.listdir gives the entries in any order: the orders of the dict
Orderings(S) ==
    {q \in [1..Cardinality(S) -> S] : \A i, j \in 1..Cardinality(S) : q[i] = q[j] => i = j}

PartitionPath(ticker, fidelity, chunk_start, chunk_end) ==
    <<ticker, FidelityFolder(fidelity),
      PartitionFileName(ticker, fidelity, StrfTime(chunk_start), StrfTime(chunk_end),
                        FileExtension(fidelity))>>

DebugPath(ticker, fidelity) ==
    <<ticker, FidelityFolder(fidelity), DebugFileName(ticker, fidelity)>>

\* the start dates strptime reads out of group 3 of the job's file names
StartDates(file_paths) == {StrpTime(FilePatternMatch(p[3])[3]) : p \in file_paths}

\* mutant: the comparison is turned round, the latest date wins
MinStartDate_Latest(file_paths, today_) ==
    LET S == StartDates(file_paths) \cup {today_}
    IN  CHOOSE d \in S : \A e \in S : DateKey(d) >= DateKey(e)

\* min_start_date = today; for each file: if current_start_date < min_start_date: ...
MinStartDate(file_paths, today_) ==
    LET S == StartDates(file_paths) \cup {today_}
    IN  CHOOSE d \in S : \A e \in S : DateKey(d) <= DateKey(e)

\* the expected_filepath of every month of the walk
ExpectedPaths(ticker, fidelity, min_start_date, today_) ==
    LET w == ExpectedChunks(min_start_date, today_)
    IN  {PartitionPath(ticker, fidelity, w[i][1], w[i][2]) : i \in 1..Len(w)}

\* mutant: the flag is overwritten by every month, one found file is enough
IsJobComplete_Some(d, ticker, fidelity, min_start_date, today_) ==
    \E x \in ExpectedPaths(ticker, fidelity, min_start_date, today_) : x \in d

\* mutant: every job is taken for incomplete
IsJobComplete_Never(d, ticker, fidelity, min_start_date, today_) == FALSE

\* major: 'if not os.path.exists(expected_filepath): is_job_complete = False'
IsJobComplete(d, ticker, fidelity, min_start_date, today_) ==
    \A x \in ExpectedPaths(ticker, fidelity, min_start_date, today_) : x \in d

\* mutant: the month added 'to be inclusive' is left out
DurationMonths_Exclusive(today_, min_start_date) ==
    RelativeDeltaMonths(today_, min_start_date)

\* r = relativedelta(today, min_start_date); r.years * 12 + r.months + 1
DurationMonths(today_, min_start_date) == RelativeDeltaMonths(today_, min_start_date) + 1

\* start_date = today - relativedelta(months=int(job['ticker_duration_months']))
RefetchStart(today_, duration_months) == AddMonths(today_, 0 - duration_months)

(***************************************************************************)
(* Spec: trading_history_repair_major.scan_and_repair_trading_history.     *)
(***************************************************************************)
ToolTodays == {<<2024, 3, 15>>}

ToolJobs == {<<<<"A">>, STR_1_minute>>, <<<<"A">>, STR_1_day>>, <<<<"B">>, STR_1_day>>}

\* ranges of files that earlier download runs have written
ToolRanges == {<<<<2024, 1, 1>>, <<2024, 1, 31>>>>,
               <<<<2024, 1, 15>>, <<2024, 1, 31>>>>,
               <<<<2024, 2, 1>>, <<2024, 2, 29>>>>,
               <<<<2024, 3, 1>>, <<2024, 3, 15>>>>}

STR_x == <<"x", ".", "c", "s", "v">>

\* a debug sample, a file that is no partition, and plain files in the place
\* of a ticker folder and of a fidelity folder
ToolExtras == {DebugPath(<<"A">>, STR_1_minute),
               <<<<"A">>, FidelityFolder(STR_1_minute), STR_x>>,
               <<<<"A">>, STR_x>>,
               <<STR_x>>}

ToolCandidates ==
    {PartitionPath(j[1], j[2], r[1], r[2]) : j \in ToolJobs, r \in ToolRanges} \cup ToolExtras

ToolDisks == {d \in SUBSET ToolCandidates : Cardinality(d) <= MaxFiles}

\* the state in which a tool starts, over a directory tree out of 'disks'
ToolStartOn(disks) ==
    /\ today \in ToolTodays
    /\ disk \in disks
    /\ discovered_jobs = <<>>
    /\ job_index = 0
    /\ report = <<>>
    /\ incomplete_jobs_to_fix = <<>>
    /\ missing_files_to_download = <<>>
    /\ files_left = {}
    /\ calls = <<>>
    /\ removed = {}
    /\ remove_errors = {}
    /\ written = {}
    /\ failures = 0
    /\ job_frame = NoFrame
    /\ chunks = <<>>
    /\ NameIdle
    /\ LaterIdle

ToolStart == ToolStartOn(ToolDisks)

Init == ToolStart /\ pc = "scan"

\* stage 1: the three nested loops over os.listdir, then 'if not discovered_jobs'
Scan ==
    /\ pc = "scan"
    /\ IF ScanJobs(disk) = {}
       THEN /\ pc' = "done"
            /\ UNCHANGED <<discovered_jobs, job_index>>
       ELSE /\ discovered_jobs' \in Orderings(ScanJobs(disk))
            /\ job_index' = 1
            /\ pc' = "validate"
    /\ UNCHANGED <<today, disk, report, incomplete_jobs_to_fix, missing_files_to_download,
                   files_left, calls, removed, remove_errors, written, failures, frameVars, nameVars>>
    /\ UNCHANGED laterVars

\* stage 2, one iteration of 'for job_key, file_paths in discovered_jobs.items()'
Validate ==
    /\ pc = "validate"
    /\ LET job == discovered_jobs[job_index]
           ticker == job.job_key[1]
           fidelity == job.job_key[2]
           raised == NoDate \in StartDates(job.file_paths)
           min_start_date == MinStartDate(job.file_paths, today)
           complete == IsJobComplete(disk, ticker, fidelity, min_start_date, today)
           job_details == [ticker |-> ticker,
                           ticker_fidelity |-> fidelity,
                           ticker_duration_months |-> DurationMonths(today, min_start_date),
                           files_to_delete |-> job.file_paths]
           fix == IF raised \/ complete THEN incomplete_jobs_to_fix
                  ELSE Append(incomplete_jobs_to_fix, job_details)
       IN  /\ report' = Append(report,
                   IF raised THEN [job_key |-> job.job_key, verdict |-> "error"]
                   ELSE [job_key |-> job.job_key,
                         verdict |-> IF complete THEN "complete" ELSE "incomplete",
                         min_start_date |-> min_start_date])
           /\ incomplete_jobs_to_fix' = fix
           /\ IF job_index < Len(discovered_jobs)
              THEN /\ job_index' = job_index + 1
                   /\ UNCHANGED <<pc, files_left>>
              ELSE IF fix = <<>>
              THEN /\ pc' = "done"
                   /\ UNCHANGED <<job_index, files_left>>
              ELSE /\ pc' = "delete"
                   /\ job_index' = 1
                   /\ files_left' = fix[1].files_to_delete
    /\ UNCHANGED <<today, disk, discovered_jobs, missing_files_to_download,
                   calls, removed, remove_errors, written, failures, frameVars, nameVars>>
    /\ UNCHANGED laterVars

\* mutant: the loop stops one file early
DeleteLoopOver_OneEarly(left) == Cardinality(left) <= 1

\* the loop 'for file_path in job['files_to_delete']' has visited every file
DeleteLoopOver(left) == left = {}

\* stage 3a, one iteration of 'for file_path in job['files_to_delete']'
DeleteFile ==
    /\ pc = "delete"
    /\ \E file_path \in files_left :
          /\ files_left' = files_left \ {file_path}
          /\ IF file_path \in disk
             THEN \/ /\ disk' = disk \ {file_path}
                     /\ removed' = removed \cup {file_path}
                     /\ UNCHANGED <<remove_errors, failures>>
                  \/ /\ failures < MaxFailures     \* os.remove raises: printed
                     /\ failures' = failures + 1
                     /\ remove_errors' = remove_errors \cup {file_path}
                     /\ UNCHANGED <<disk, removed>>
             ELSE UNCHANGED <<disk, removed, remove_errors, failures>>
    /\ UNCHANGED <<today, pc, discovered_jobs, job_index, report, incomplete_jobs_to_fix,
                   missing_files_to_download, calls, written, frameVars, nameVars>>
    /\ UNCHANGED laterVars

\* stage 3a, after the loop: 'Also delete the debug file, just in case'
DeleteDebug ==
    /\ pc = "delete"
    /\ DeleteLoopOver(files_left)
    /\ LET job == incomplete_jobs_to_fix[job_index]
           debug_file_path == DebugPath(job.ticker, job.ticker_fidelity)
       IN  IF debug_file_path \in disk
           THEN \/ /\ disk' = disk \ {debug_file_path}
                   /\ removed' = removed \cup {debug_file_path}
                   /\ UNCHANGED <<remove_errors, failures>>
                \/ /\ failures < MaxFailures       \* os.remove raises: printed
                   /\ failures' = failures + 1
                   /\ remove_errors' = remove_errors \cup {debug_file_path}
                   /\ UNCHANGED <<disk, removed>>
           ELSE UNCHANGED <<disk, removed, remove_errors, failures>>
    /\ pc' = "refetch"
    /\ UNCHANGED <<today, discovered_jobs, job_index, report, incomplete_jobs_to_fix,
                   missing_files_to_download, files_left, calls, written,
                   frameVars, nameVars>>
    /\ UNCHANGED laterVars

(***************************************************************************)
(* stocks_trading_history._process_trading_history_job                     *)
(***************************************************************************)
FetchOutcomes == {"data", "nodata", "raise"}

\* lines 43-63: the locals at the head of the month loop; a fidelity that
\* cannot be parsed returns at once
JobFrame(d, ticker, fidelity, start_date, end_date) ==
    [running |-> TRUE,
     aborted |-> ParseHistoricalFidelity(fidelity) = "",
     ticker |-> ticker,
     fidelity |-> fidelity,
     timespan |-> ParseHistoricalFidelity(fidelity),
     debug_file_exists |-> DebugPath(ticker, fidelity) \in d,
     overall_start_date |-> StrpTime(start_date),
     overall_end_date |-> StrpTime(end_date),
     current_date |-> StrpTime(start_date),
     is_first_chunk |-> TRUE]

\* mutant: every chunk is saved as parquet
SavePath_Parquet(ticker, fidelity, timespan, start_date, end_date) ==
    <<ticker, FidelityFolder(fidelity),
      PartitionFileName(ticker, fidelity, start_date, end_date, STR_parquet)>>

\* _save_trading_history_data: the path of the file a chunk is saved to
SavePath(ticker, fidelity, timespan, start_date, end_date) ==
    <<ticker, FidelityFolder(fidelity),
      PartitionFileName(ticker, fidelity, start_date, end_date,
                        IF timespan = "day" THEN STR_csv ELSE STR_parquet)>>

\* the files one iteration of the month loop writes when the fetch yields rows:
\* the partition, and the debug sample from the first page of the first chunk
ChunkWrites(f) ==
    {SavePath(f.ticker, f.fidelity, f.timespan,
              StrfTime(ChunkStart(f.current_date, f.overall_start_date)),
              StrfTime(ChunkEnd(f.current_date, f.overall_end_date)))}
    \cup (IF f.is_first_chunk /\ ~f.debug_file_exists /\ f.timespan # "day"
          THEN {DebugPath(f.ticker, f.fidelity)} ELSE {})

\* one iteration of 'while current_date <= overall_end_date': fetch and save
ProcessChunk ==
    /\ pc \in {"download", "m_download", "w_download"}
    /\ job_frame.running
    /\ ~job_frame.aborted
    /\ DateKey(job_frame.current_date) <= DateKey(job_frame.overall_end_date)
    /\ POLYGON_API_KEY # ""
    /\ \E outcome \in FetchOutcomes :
          /\ chunks' = Append(chunks,
                 <<ChunkStart(job_frame.current_date, job_frame.overall_start_date),
                   ChunkEnd(job_frame.current_date, job_frame.overall_end_date)>>)
          /\ IF outcome = "data"
             THEN /\ disk' = disk \cup ChunkWrites(job_frame)
                  /\ written' = written \cup ChunkWrites(job_frame)
                  /\ UNCHANGED failures
             ELSE /\ failures < MaxFailures
                  /\ failures' = failures + 1
                  /\ UNCHANGED <<disk, written>>
          /\ job_frame' =
               IF outcome = "raise" /\ job_frame.timespan = "day"
               THEN \* the stream raises while it is drained: caught at line 101
                    [job_frame EXCEPT !.aborted = TRUE]
               ELSE \* streamed to parquet: an error is caught by the writer
                    [job_frame EXCEPT !.current_date = NextMonth(job_frame.current_date),
                                      !.is_first_chunk = FALSE]
    /\ UNCHANGED <<today, pc, discovered_jobs, job_index, report, incomplete_jobs_to_fix,
                   missing_files_to_download, files_left, calls, removed, remove_errors, nameVars>>
    /\ UNCHANGED laterVars

\* the function returns; the caller's loop goes to its next job
ReturnFromJob ==
    /\ pc \in {"download", "m_download", "w_download"}
    /\ job_frame.running
    /\ \/ job_frame.aborted
       \/ DateKey(job_frame.current_date) > DateKey(job_frame.overall_end_date)
    /\ job_frame' = NoFrame
    /\ IF pc = "download"
       THEN IF job_index < Len(incomplete_jobs_to_fix)
            THEN /\ pc' = "delete"
                 /\ job_index' = job_index + 1
                 /\ files_left' = incomplete_jobs_to_fix[job_index + 1].files_to_delete
            ELSE /\ pc' = "done"
                 /\ UNCHANGED <<job_index, files_left>>
       ELSE IF pc = "m_download"
       THEN IF job_index < Len(missing_files_to_download)
            THEN /\ pc' = "m_start"
                 /\ job_index' = job_index + 1
                 /\ UNCHANGED files_left
            ELSE /\ pc' = "done"
                 /\ UNCHANGED <<job_index, files_left>>
       ELSE \* run_target_based_workflow: back in 'for job in targets'
            /\ pc' = "w_loop"
            /\ UNCHANGED <<job_index, files_left>>
    /\ UNCHANGED <<today, disk, discovered_jobs, report, incomplete_jobs_to_fix,
                   missing_files_to_download, calls, removed, remove_errors, written,
                   failures, chunks, nameVars>>
    /\ UNCHANGED laterVars

\* major, stage 3b: the call of _process_trading_history_job for the job
StartRefetch ==
    /\ pc = "refetch"
    /\ LET job == incomplete_jobs_to_fix[job_index]
           start_date == StrfTime(RefetchStart(today, job.ticker_duration_months))
           end_date == StrfTime(today)
       IN  /\ calls' = Append(calls, [ticker |-> job.ticker,
                                      fidelity |-> job.ticker_fidelity,
                                      start_date |-> start_date,
                                      end_date |-> end_date])
           /\ job_frame' = JobFrame(disk, job.ticker, job.ticker_fidelity,
                                    start_date, end_date)
    /\ chunks' = <<>>
    /\ pc' = "download"
    /\ UNCHANGED <<today, disk, discovered_jobs, job_index, report, incomplete_jobs_to_fix,
                   missing_files_to_download, files_left, removed, remove_errors, written,
                   failures, nameVars>>
    /\ UNCHANGED laterVars

Next ==
    \/ Scan
    \/ Validate
    \/ DeleteFile
    \/ DeleteDebug
    \/ StartRefetch
    \/ ProcessChunk
    \/ ReturnFromJob

Spec == Init /\ [][Next]_vars

(***************************************************************************)
(* SpecMinor: trading_history_repair_minor.repair_minor_trading_history.   *)
(***************************************************************************)
MinorInit == ToolStart /\ pc = "m_scan"

\* the names the scan keeps for a job: discovered_jobs[job_key].append(filename)
FileNames(file_paths) == {p[3] : p \in file_paths}

\* mutant: the expected name always ends in .csv
IsMissing_Csv(filenames, ticker, fidelity, chunk) ==
    PartitionFileName(ticker, fidelity, StrfTime(chunk[1]), StrfTime(chunk[2]),
                      STR_csv) \notin filenames

\* minor: 'if expected_filename not in filenames'
IsMissing(filenames, ticker, fidelity, chunk) ==
    PartitionFileName(ticker, fidelity, StrfTime(chunk[1]), StrfTime(chunk[2]),
                      FileExtension(fidelity)) \notin filenames

\* mutant: every month of the walk is downloaded, found or not
MissingDownloads_All(filenames, ticker, fidelity, min_start_date, today_) ==
    LET w == ExpectedChunks(min_start_date, today_)
    IN  [i \in 1..Len(w) |->
            [job_details |-> [ticker |-> ticker, ticker_fidelity |-> fidelity],
             start_date |-> StrfTime(w[i][1]),
             end_date |-> StrfTime(w[i][2])]]

\* the download jobs one validated job appends, in the order of the walk
MissingDownloads(filenames, ticker, fidelity, min_start_date, today_) ==
    LET Test(chunk) == IsMissing(filenames, ticker, fidelity, chunk)
        gaps == SelectSeq(ExpectedChunks(min_start_date, today_), Test)
    IN  [i \in 1..Len(gaps) |->
            [job_details |-> [ticker |-> ticker, ticker_fidelity |-> fidelity],
             start_date |-> StrfTime(gaps[i][1]),
             end_date |-> StrfTime(gaps[i][2])]]

\* stage 1 of the minor tool: the same three loops, keeping file names
MinorScan ==
    /\ pc = "m_scan"
    /\ IF ScanJobs(disk) = {}
       THEN /\ pc' = "done"
            /\ UNCHANGED <<discovered_jobs, job_index>>
       ELSE /\ discovered_jobs' \in Orderings(ScanJobs(disk))
            /\ job_index' = 1
            /\ pc' = "m_validate"
    /\ UNCHANGED <<today, disk, report, incomplete_jobs_to_fix, missing_files_to_download,
                   files_left, calls, removed, remove_errors, written, failures, frameVars, nameVars>>
    /\ UNCHANGED laterVars

\* stage 2, one iteration of 'for job_key, filenames in discovered_jobs.items()'
MinorValidate ==
    /\ pc = "m_validate"
    /\ LET job == discovered_jobs[job_index]
           ticker == job.job_key[1]
           fidelity == job.job_key[2]
           raised == NoDate \in StartDates(job.file_paths)
           min_start_date == MinStartDate(job.file_paths, today)
           missing == IF raised THEN missing_files_to_download
                      ELSE missing_files_to_download
                           \o MissingDownloads(FileNames(job.file_paths), ticker, fidelity,
                                               min_start_date, today)
       IN  /\ report' = Append(report,
                   IF raised THEN [job_key |-> job.job_key, verdict |-> "error"]
                   ELSE [job_key |-> job.job_key,
                         verdict |-> "checked",
                         min_start_date |-> min_start_date])
           /\ missing_files_to_download' = missing
           /\ IF job_index < Len(discovered_jobs)
              THEN /\ job_index' = job_index + 1
                   /\ UNCHANGED pc
              ELSE IF missing = <<>>
              THEN /\ pc' = "done"
                   /\ UNCHANGED job_index
              ELSE /\ pc' = "m_start"
                   /\ job_index' = 1
    /\ UNCHANGED <<today, disk, discovered_jobs, incomplete_jobs_to_fix, files_left,
                   calls, removed, remove_errors, written, failures, frameVars, nameVars>>
    /\ UNCHANGED laterVars

\* stage 3, one iteration of 'for download in missing_files_to_download'
MinorStart ==
    /\ pc = "m_start"
    /\ LET download == missing_files_to_download[job_index]
           job_details == download.job_details
       IN  /\ calls' = Append(calls, [ticker |-> job_details.ticker,
                                      fidelity |-> job_details.ticker_fidelity,
                                      start_date |-> download.start_date,
                                      end_date |-> download.end_date])
           /\ job_frame' = JobFrame(disk, job_details.ticker, job_details.ticker_fidelity,
                                    download.start_date, download.end_date)
    /\ chunks' = <<>>
    /\ pc' = "m_download"
    /\ UNCHANGED <<today, disk, discovered_jobs, job_index, report, incomplete_jobs_to_fix,
                   missing_files_to_download, files_left, removed, remove_errors, written,
                   failures, nameVars>>
    /\ UNCHANGED laterVars

MinorNext ==
    \/ MinorScan
    \/ MinorValidate
    \/ MinorStart
    \/ ProcessChunk
    \/ ReturnFromJob

SpecMinor == MinorInit /\ [][MinorNext]_vars

(***************************************************************************)
(* Properties of the repair tools. The months a job is expected to have    *)
(* are stated here by the calendar, not by the walk of the code.           *)
(***************************************************************************)
MonthIndex(d) == d[1] * 12 + d[2] - 1

MonthFirst(k) == <<k \div 12, (k % 12) + 1, 1>>

MonthLast(k) == <<k \div 12, (k % 12) + 1, DaysInMonth(k \div 12, (k % 12) + 1)>>

LaterOf(a, b) == IF DateKey(a) >= DateKey(b) THEN a ELSE b

EarlierOf(a, b) == IF DateKey(a) <= DateKey(b) THEN a ELSE b

\* every calendar month that meets [lo, hi], cut to [lo, hi]
MonthlyRanges(lo, hi) ==
    {<<LaterOf(MonthFirst(k), lo), EarlierOf(MonthLast(k), hi)>> :
        k \in MonthIndex(lo)..MonthIndex(hi)}

\* the partition files a job is expected to have for [lo, today]
ExpectedOf(job_key, lo) ==
    {PartitionPath(job_key[1], job_key[2], rg[1], rg[2]) : rg \in MonthlyRanges(lo, today)}

\* nothing has been deleted or written yet: the disk is as it was scanned
DiskAsScanned == removed = {} /\ written = {}

ValidationOver == pc \in {"delete", "refetch", "download", "m_start", "m_download"}
                  \/ (pc = "done" /\ Len(report) = Len(discovered_jobs))

OnFixList(job_key) ==
    \E k \in 1..Len(incomplete_jobs_to_fix) :
        /\ incomplete_jobs_to_fix[k].ticker = job_key[1]
        /\ incomplete_jobs_to_fix[k].ticker_fidelity = job_key[2]

\* C2: every discovered job gets a verdict; a job is reported complete iff
\* every expected monthly file for [min_start_date, today] is on disk, and it
\* is on the list of jobs to fix iff one of them is absent.
C2_GapDetectorSound ==
    /\ ValidationOver => Len(report) = Len(discovered_jobs)
    /\ DiskAsScanned =>
         \A i \in 1..Len(report) :
            /\ report[i].job_key = discovered_jobs[i].job_key
            /\ report[i].verdict \in {"complete", "incomplete"}
            /\ report[i].verdict = "complete"
                 <=> ExpectedOf(report[i].job_key, report[i].min_start_date) \subseteq disk
            /\ OnFixList(report[i].job_key)
                 <=> ~(ExpectedOf(report[i].job_key, report[i].min_start_date) \subseteq disk)

\* one job is reported complete, another whose only file is the second half of
\* January is on the list of jobs to fix
C2_Witness ==
    /\ DiskAsScanned
    /\ pc = "delete"
    /\ \E i, j \in 1..Len(report) :
          /\ report[i].verdict = "complete"
          /\ report[j].verdict = "incomplete"
          /\ report[j].min_start_date = <<2024, 1, 15>>
          /\ OnFixList(report[j].job_key)
          /\ ~OnFixList(report[i].job_key)

ReportOf(ticker, fidelity) ==
    report[CHOOSE i \in 1..Len(report) : report[i].job_key = <<ticker, fidelity>>]

\* C4 as stated: the range handed to the re-fetch of an incomplete job is
\* exactly [min_start_date, today].
C4_RefetchRangeIsMinStartToToday ==
    \A k \in 1..Len(calls) :
        /\ calls[k].start_date
             = StrfTime(ReportOf(calls[k].ticker, calls[k].fidelity).min_start_date)
        /\ calls[k].end_date = StrfTime(today)

CurrentFix == incomplete_jobs_to_fix[job_index]

FolderOf(job_key) == <<job_key[1], FidelityFolder(job_key[2])>>

\* C7: a job whose expected monthly files were all found loses no file
\* (partition or debug) and is fetched for nothing; every file deleted or
\* written lies in the folder of a job of the list of jobs to fix, no later in
\* the list than the job being processed.
C7_OnlyGappedJobsTouched ==
    /\ \A i \in 1..Len(report) :
          (ExpectedOf(report[i].job_key, report[i].min_start_date)
               \subseteq discovered_jobs[i].file_paths) =>
             /\ \A p \in removed \cup remove_errors \cup written :
                    <<p[1], p[2]>> # FolderOf(report[i].job_key)
             /\ \A k \in 1..Len(calls) :
                    <<calls[k].ticker, calls[k].fidelity>> # report[i].job_key
             /\ discovered_jobs[i].file_paths \subseteq disk
    /\ \A p \in removed \cup remove_errors \cup written :
          \E k \in 1..job_index :
             <<p[1], p[2]>> = FolderOf(<<incomplete_jobs_to_fix[k].ticker,
                                         incomplete_jobs_to_fix[k].ticker_fidelity>>)

\* the run is over: one job was complete and kept its file, the other was
\* deleted and rebuilt
C7_Witness ==
    /\ pc = "done"
    /\ removed # {}
    /\ written # {}
    /\ \E i \in 1..Len(report) :
          /\ report[i].verdict = "complete"
          /\ discovered_jobs[i].file_paths \subseteq disk
          /\ discovered_jobs[i].file_paths \cap written = {}

(***************************************************************************)
(* SpecTools: a run of either tool.                                        *)
(***************************************************************************)
ToolsInit == ToolStart /\ pc \in {"scan", "m_scan"}

ToolsNext == Next \/ MinorNext

SpecTools == ToolsInit /\ [][ToolsNext]_vars

ScanOver == pc \notin {"scan", "m_scan"}

\* the partition files the writer can have left for a job
WriterFiles(job_key) ==
    {PartitionPath(job_key[1], job_key[2], r[1], r[2]) : r \in ToolRanges}

\* C9: after the scan, every entry of discovered_jobs is the job of a folder
\* root/ticker/fidelity-folder and lists exactly the partition files of that
\* folder; its key is the ticker folder and the fidelity with spaces, which
\* turned back to hyphens is the folder name; every folder with a partition
\* file has one entry; debug files, other files and plain files in the place
\* of folders are in no entry.
C9_ScannerGrouping ==
    (ScanOver /\ DiskAsScanned) =>
        /\ \A i \in 1..Len(discovered_jobs) :
              LET e == discovered_jobs[i]
              IN  /\ e.job_key \in ToolJobs
                  /\ e.file_paths = disk \cap WriterFiles(e.job_key)
                  /\ e.file_paths # {}
                  /\ \A p \in e.file_paths :
                        /\ p[1] = e.job_key[1]
                        /\ p[2] = FidelityFolder(e.job_key[2])
                        /\ e.job_key[2] = FidelityForApi(p[2])
        /\ \A i, j \in 1..Len(discovered_jobs) :
              discovered_jobs[i].job_key = discovered_jobs[j].job_key => i = j
        /\ \A job_key \in ToolJobs :
              disk \cap WriterFiles(job_key) # {}
                 => \E i \in 1..Len(discovered_jobs) : discovered_jobs[i].job_key = job_key

\* the scan has listed the one partition file of a folder that also holds a
\* file that is no partition
C9_Witness ==
    /\ ScanOver
    /\ DiskAsScanned
    /\ <<<<"A">>, FidelityFolder(STR_1_minute), STR_x>> \in disk
    /\ Len(discovered_jobs) = 1
    /\ discovered_jobs[1].job_key = <<<<"A">>, STR_1_minute>>
    /\ Cardinality(discovered_jobs[1].file_paths) = 1

\* the start dates in the names of a job's discovered files
EmbeddedStarts(job_key, file_paths) ==
    {r[1] : r \in {x \in ToolRanges :
                      PartitionPath(job_key[1], job_key[2], x[1], x[2]) \in file_paths}}

\* C10: the min_start_date a job is validated with is the least start date in
\* the names of its discovered files.
C10_MinStartIsEarliest ==
    \A i \in 1..Len(report) :
        report[i].verdict # "error" =>
            LET E == EmbeddedStarts(discovered_jobs[i].job_key, discovered_jobs[i].file_paths)
            IN  /\ report[i].min_start_date \in E
                /\ \A d \in E : DateKey(report[i].min_start_date) <= DateKey(d)

\* a validated job with a file that starts on 2024-03-01 and one on 2024-01-15
C10_Witness ==
    \E i \in 1..Len(report) :
        /\ EmbeddedStarts(discovered_jobs[i].job_key, discovered_jobs[i].file_paths)
             = {<<2024, 3, 1>>, <<2024, 1, 15>>}
        /\ report[i].min_start_date = <<2024, 1, 15>>

(***************************************************************************)
(* Properties of the minor tool.                                           *)
(***************************************************************************)
\* the (job, month) pairs whose expected file name is not among the names
\* discovered for the job
Gaps ==
    {g \in UNION {{<<i, rg>> : rg \in MonthlyRanges(report[i].min_start_date, today)} :
                     i \in {k \in 1..Len(report) : report[k].verdict # "error"}} :
        PartitionPath(report[g[1]].job_key[1], report[g[1]].job_key[2], g[2][1], g[2][2])
            \notin discovered_jobs[g[1]].file_paths}

DownloadOf(g) ==
    [job_details |-> [ticker |-> report[g[1]].job_key[1],
                      ticker_fidelity |-> report[g[1]].job_key[2]],
     start_date |-> StrfTime(g[2][1]),
     end_date |-> StrfTime(g[2][2])]

\* C3: the download ranges of the minor scan are in one-to-one correspondence
\* with the expected months whose file name is absent from the job's
\* discovered files: each absent month gives one range with its cut start and
\* end, and a month whose file exists gives none.
C3_MinorPrecision ==
    /\ Len(missing_files_to_download) = Cardinality(Gaps)
    /\ \A g \in Gaps :
          \E k \in 1..Len(missing_files_to_download) :
             missing_files_to_download[k] = DownloadOf(g)
    /\ \A k \in 1..Len(missing_files_to_download) :
          \E g \in Gaps : missing_files_to_download[k] = DownloadOf(g)

\* January and March were found, February was not: one range, February
C3_Witness ==
    /\ pc = "m_start"
    /\ Len(report) = 1
    /\ report[1].min_start_date = <<2024, 1, 1>>
    /\ Cardinality(discovered_jobs[1].file_paths) = 2
    /\ Len(missing_files_to_download) = 1
    /\ missing_files_to_download[1].start_date = StrfTime(<<2024, 2, 1>>)
    /\ missing_files_to_download[1].end_date = StrfTime(<<2024, 2, 29>>)

ScannedFiles == UNION {discovered_jobs[i].file_paths : i \in 1..Len(discovered_jobs)}

IsDebugPath(p) == p = DebugPath(p[1], FidelityForApi(p[2]))

\* C6: the minor tool deletes nothing, writes no partition file that was
\* found by the scan, and writes no partition file but one whose expected
\* name was missing at the scan; the files found by the scan stay on disk.
C6_MinorLeavesExisting ==
    /\ removed = {}
    /\ remove_errors = {}
    /\ written \cap ScannedFiles = {}
    /\ ScanOver => ScannedFiles \subseteq disk
    /\ \A p \in written :
          \/ IsDebugPath(p)
          \/ \E g \in Gaps :
                p = PartitionPath(report[g[1]].job_key[1], report[g[1]].job_key[2],
                                  g[2][1], g[2][2])

\* the minor run is over: it has written the missing February file next to
\* the January and March files it found
C6_Witness ==
    /\ pc = "done"
    /\ Len(discovered_jobs) = 1
    /\ Cardinality(discovered_jobs[1].file_paths) = 2
    /\ PartitionPath(discovered_jobs[1].job_key[1], discovered_jobs[1].job_key[2],
                     <<2024, 2, 1>>, <<2024, 2, 29>>) \in written
    /\ discovered_jobs[1].file_paths \subseteq disk

(***************************************************************************)
(* SpecBadDate: a run of either tool over a tree that holds a file whose   *)
(* name matches file_pattern (\d{4}-\d{2}-\d{2} asks for digits only) but  *)
(* whose start date strptime rejects.                                      *)
(***************************************************************************)
STR_Feb30 == <<"2", "0", "2", "4", "-", "0", "2", "-", "3", "0">>
STR_Month13 == <<"2", "0", "2", "4", "-", "1", "3", "-", "0", "1">>

BadDateFiles ==
    {<<<<"A">>, FidelityFolder(STR_1_minute),
       PartitionFileName(<<"A">>, STR_1_minute, bad, StrfTime(<<2024, 3, 15>>), STR_parquet)>> :
        bad \in {STR_Feb30, STR_Month13}}

BadDateDisks == {d \cup {b} : d \in ToolDisks, b \in BadDateFiles}

BadDateInit == ToolStartOn(BadDateDisks) /\ pc \in {"scan", "m_scan"}

SpecBadDate == BadDateInit /\ [][ToolsNext]_vars

\* the validation of job i met a start date strptime cannot parse
HasBadDate(i) ==
    \E p \in discovered_jobs[i].file_paths : StrpTime(FilePatternMatch(p[3])[3]) = NoDate

\* C11: when the file list of a job holds a name that matches the pattern but
\* whose start date is no calendar date, validating the job raises the error
\* out of the validation: the tool stops there, it validates no later job and
\* starts no repair, and the job is not merely left out.
C11_BadDateRaises ==
    \A i \in 1..Len(report) :
        HasBadDate(i) => /\ pc = "raised"
                         /\ Len(report) = i

(***************************************************************************)
(* Python floats (IEEE 754 binary64, round to nearest, ties to even), as   *)
(* far as anomaly_detector uses them. A positive float is                  *)
(* [mant |-> 53 bits, the first one 1, exp |-> e], of value mant * 2^e;    *)
(* the bits are kept in a sequence, most significant first.                *)
(***************************************************************************)
MantissaBits == 53

RECURSIVE Pow2(_)
Pow2(k) == IF k = 0 THEN 1 ELSE 2 * Pow2(k - 1)

\* the w binary digits of v < 2^w
FixedBits(v, w) == [i \in 1..w |-> (v \div Pow2(w - i)) % 2]

\* the value of a short sequence of bits
RECURSIVE BitsVal(_)
BitsVal(bits) ==
    IF bits = <<>> THEN 0
    ELSE 2 * BitsVal(SubSeq(bits, 1, Len(bits) - 1)) + bits[Len(bits)]

\* 9 * n bits of the binary expansion of rem / d (rem < d), nine at a step,
\* and the remainder left
RECURSIVE LongDiv(_, _, _)
LongDiv(rem, d, n) ==
    IF n = 0 THEN <<<<>>, rem>>
    ELSE LET t == rem * 512
             rest == LongDiv(t % d, d, n - 1)
         IN  <<FixedBits(t \div d, 9) \o rest[1], rest[2]>>

\* bits + 1; a carry out of the first bit makes the sequence one bit longer
BitsInc(bits) ==
    LET n == Len(bits)
        zeros == {i \in 1..n : bits[i] = 0}
    IN  IF zeros = {} THEN <<1>> \o [i \in 1..n |-> 0]
        ELSE LET k == CHOOSE i \in zeros : \A z \in zeros : z <= i
             IN  [i \in 1..n |-> IF i < k THEN bits[i] ELSE IF i = k THEN 1 ELSE 0]

\* round the bits (of value bits * 2^e) to MantissaBits bits, ties to even
RoundToNearestEven(bits, e, sticky) ==
    LET n == Len(bits)
        drop == n - MantissaBits
        kept == SubSeq(bits, 1, MantissaBits)
        round == bits[MantissaBits + 1]
        rest == sticky \/ \E i \in (MantissaBits + 2)..n : bits[i] = 1
        up == round = 1 /\ (rest \/ kept[MantissaBits] = 1)
        m == IF up THEN BitsInc(kept) ELSE kept
    IN  IF drop <= 0 THEN [mant |-> bits, exp |-> e]
        ELSE IF Len(m) > MantissaBits
        THEN [mant |-> SubSeq(m, 1, MantissaBits), exp |-> e + drop + 1]
        ELSE [mant |-> m, exp |-> e + drop]

\* the least s with n * 2^s >= d
RECURSIVE ShiftUpTo(_, _)
ShiftUpTo(n, d) == IF n >= d THEN 0 ELSE 1 + ShiftUpTo(2 * n, d)

\* the float n / d of two positive integers with n <= d: Python's true division
FloatDiv(n, d) ==
    LET s == ShiftUpTo(n, d)
        q == LongDiv(n * Pow2(s) - d, d, 6)
    IN  RoundToNearestEven(<<1>> \o q[1], 0 - s - Len(q[1]), q[2] # 0)

\* the binary digits of a natural number (none for 0)
RECURSIVE BitsOf(_)
BitsOf(k) == IF k = 0 THEN <<>> ELSE Append(BitsOf(k \div 2), k % 2)

\* bits without the zeros in front
StripZeros(bits) ==
    LET ones == {i \in 1..Len(bits) : bits[i] = 1}
    IN  IF ones = {} THEN <<>>
        ELSE SubSeq(bits, CHOOSE i \in ones : \A o \in ones : i <= o, Len(bits))

\* bits * k + carry, nine bits at a step from the last bit on (Len(bits) is a
\* multiple of 9)
RECURSIVE TimesFrom(_, _, _)
TimesFrom(bits, k, carry) ==
    IF bits = <<>> THEN BitsOf(carry)
    ELSE LET n == Len(bits)
             t == BitsVal(SubSeq(bits, n - 8, n)) * k + carry
         IN  TimesFrom(SubSeq(bits, 1, n - 9), k, t \div 512) \o FixedBits(t % 512, 9)

\* bits * k for a small positive integer k
BitsTimes(bits, k) ==
    StripZeros(TimesFrom([i \in 1..((9 - (Len(bits) % 9)) % 9) |-> 0] \o bits, k, 0))

\* the float x * k
FloatTimes(x, k) == RoundToNearestEven(BitsTimes(x.mant, k), x.exp, FALSE)

\* the float of a positive integer below 2^MantissaBits: exact
FloatOf(k) ==
    LET b == BitsOf(k)
    IN  [mant |-> b \o [i \in 1..(MantissaBits - Len(b)) |-> 0],
         exp |-> Len(b) - MantissaBits]

\* x > y for two positive floats
FloatGreater(x, y) ==
    \/ x.exp > y.exp
    \/ /\ x.exp = y.exp
       /\ \E i \in 1..MantissaBits :
              /\ x.mant[i] > y.mant[i]
              /\ \A j \in 1..(i - 1) : x.mant[j] = y.mant[j]

(***************************************************************************)
(* SpecAnomaly: anomaly_detector.detect_trading_history_anomalies.         *)
(***************************************************************************)
MaxParts == 3

DefaultThreshold == 20

\* size_threshold_percent: the default, and a value a caller passes
AnomalyThresholds == {DefaultThreshold, 28}

\* os.path.getsize of the files, in bytes
AnomalySizes == {0, 18, 25, 80, 100}

\* two of the files start on the same day
AnomalyRanges == {<<<<2024, 1, 1>>, <<2024, 1, 15>>>>,
                  <<<<2024, 1, 1>>, <<2024, 1, 31>>>>,
                  <<<<2024, 2, 1>>, <<2024, 2, 29>>>>,
                  <<<<2024, 3, 1>>, <<2024, 3, 15>>>>}

AnomalyDisks ==
    {a \cup b :
        a \in {s \in SUBSET {PartitionPath(<<"A">>, STR_1_minute, r[1], r[2]) : r \in AnomalyRanges} :
                  Cardinality(s) <= MaxParts},
        b \in SUBSET {PartitionPath(<<"B">>, STR_1_day, <<2024, 3, 1>>, <<2024, 3, 15>>)}}

\* the sizes of the files of job A vary, the file of job B has 100 bytes
AnomalyGetsize(d) ==
    {g \in [d -> AnomalySizes] : \A p \in d : p[1] # <<"A">> => g[p] = 100}

AnomalyInit ==
    /\ today = NoDate
    /\ disk \in AnomalyDisks
    /\ getsize \in AnomalyGetsize(disk)
    /\ size_threshold_percent \in AnomalyThresholds
    /\ pc = "a_scan"
    /\ discovered_jobs = <<>>
    /\ job_index = 0
    /\ sorted_files = <<>>
    /\ file_index = 0
    /\ comparisons = <<>>
    /\ anomalies = <<>>
    /\ report = <<>>
    /\ incomplete_jobs_to_fix = <<>>
    /\ missing_files_to_download = <<>>
    /\ files_left = {}
    /\ calls = <<>>
    /\ removed = {}
    /\ remove_errors = {}
    /\ written = {}
    /\ failures = 0
    /\ job_frame = NoFrame
    /\ chunks = <<>>
    /\ NameIdle
    /\ ProgramIdle

\* one order of the files of every job, as os.listdir gives them
FileOrders(jobs) ==
    {f \in [jobs -> UNION {Orderings(j.file_paths) : j \in jobs}] :
        \A j \in jobs : f[j] \in Orderings(j.file_paths)}

\* discovered_jobs[job_key].append({'path': ..., 'date': start_date})
AnomalyJobs(d) ==
    LET jobs == ScanJobs(d)
    IN  {[i \in 1..Cardinality(jobs) |->
            [job_key |-> q[i].job_key,
             files |-> [k \in 1..Cardinality(q[i].file_paths) |->
                          [path |-> f[q[i]][k],
                           date |-> StrpTime(FilePatternMatch(f[q[i]][k][3])[3])]]]] :
            q \in Orderings(jobs), f \in FileOrders(jobs)}

\* sorted(files, key=lambda x: x['date']): the sort is stable
SortedByDate(files) ==
    LET n == Len(files)
        rank(k) == 1 + Cardinality({j \in 1..n :
                        \/ DateKey(files[j].date) < DateKey(files[k].date)
                        \/ DateKey(files[j].date) = DateKey(files[k].date) /\ j < k})
    IN  [p \in 1..n |-> files[CHOOSE k \in 1..n : rank(k) = p]]

\* file_sizes = [os.path.getsize(f['path']) for f in sorted_files]
FileSizes(files, sizes) == [i \in 1..Len(files) |-> sizes[files[i].path]]

NoComparison == [num |-> 0, den |-> 0]

\* mutant: the first file is compared with the average of nothing and its successor
ComparisonSize_FirstAveraged(file_sizes, i) ==
    LET n == Len(file_sizes)
    IN  IF i < n THEN [num |-> (IF i > 1 THEN file_sizes[i - 1] ELSE 0) + file_sizes[i + 1],
                       den |-> 2]
        ELSE IF i > 1 THEN [num |-> file_sizes[i - 1], den |-> 1]
        ELSE NoComparison

\* comparison_size of the file at place i (1-based), as the fraction num / den:
\* (prev_size + next_size) / 2 is a float, a multiple of one half
ComparisonSize(file_sizes, i) ==
    LET n == Len(file_sizes)
        has_prev == i > 1
        has_next == i < n
    IN  IF has_prev /\ has_next
        THEN [num |-> file_sizes[i - 1] + file_sizes[i + 1], den |-> 2]
        ELSE IF has_prev THEN [num |-> file_sizes[i - 1], den |-> 1]
        ELSE IF has_next THEN [num |-> file_sizes[i + 1], den |-> 1]
        ELSE NoComparison

\* percentage_diff = ((comparison_size - current_size) / comparison_size) * 100
\* and 'if percentage_diff > size_threshold_percent'; the difference and the
\* quotient's operands are exact, the quotient and the product are rounded
IsAnomaly(comparison_size, current_size, threshold) ==
    LET n == comparison_size.num - comparison_size.den * current_size
        d == comparison_size.num
    IN  IF n <= 0 THEN FALSE
        ELSE FloatGreater(FloatTimes(FloatDiv(n, d), 100), FloatOf(threshold))

\* stage 1: the nested os.listdir loops, then 'if not discovered_jobs'
AnomalyScan ==
    /\ pc = "a_scan"
    /\ IF ScanJobs(disk) = {}
       THEN /\ pc' = "done"
            /\ UNCHANGED <<discovered_jobs, job_index>>
       ELSE /\ discovered_jobs' \in AnomalyJobs(disk)
            /\ job_index' = 1
            /\ pc' = "a_job"
    /\ UNCHANGED <<today, disk, report, incomplete_jobs_to_fix, missing_files_to_download,
                   files_left, calls, removed, remove_errors, written, failures,
                   frameVars, nameVars, anomalyVars>>
    /\ UNCHANGED programVars

\* the end of one iteration of 'for job_key, files in discovered_jobs.items()'
AfterJob(found) ==
    IF job_index < Len(discovered_jobs)
    THEN /\ job_index' = job_index + 1
         /\ pc' = "a_job"
    ELSE /\ pc' = IF found = <<>> THEN "done" ELSE "a_save"
         /\ UNCHANGED job_index

\* stage 2, the head of an iteration: sort, 'if len(sorted_files) < 2: continue'
AnalyzeJob ==
    /\ pc = "a_job"
    /\ LET sorted == SortedByDate(discovered_jobs[job_index].files)
       IN  IF Len(sorted) < 2
           THEN /\ AfterJob(anomalies)
                /\ UNCHANGED <<sorted_files, file_index>>
           ELSE /\ sorted_files' = sorted
                /\ file_index' = 1
                /\ pc' = "a_file"
                /\ UNCHANGED job_index
    /\ UNCHANGED <<today, disk, discovered_jobs, report, incomplete_jobs_to_fix,
                   missing_files_to_download, files_left, calls, removed, remove_errors,
                   written, failures, frameVars, nameVars,
                   size_threshold_percent, getsize, comparisons, anomalies>>
    /\ UNCHANGED programVars

\* stage 2, one iteration of 'for i in range(len(sorted_files))'
AnalyzeFile ==
    /\ pc = "a_file"
    /\ LET job_key == discovered_jobs[job_index].job_key
           file_sizes == FileSizes(sorted_files, getsize)
           current_size == file_sizes[file_index]
           comparison_size == ComparisonSize(file_sizes, file_index)
           found == IF /\ comparison_size # NoComparison
                       /\ comparison_size.num # 0
                       /\ IsAnomaly(comparison_size, current_size, size_threshold_percent)
                    THEN Append(anomalies, [ticker |-> job_key[1],
                                            fidelity |-> job_key[2],
                                            full_path |-> sorted_files[file_index].path])
                    ELSE anomalies
       IN  /\ comparisons' =
                IF comparison_size = NoComparison THEN comparisons
                ELSE Append(comparisons, [job_key |-> job_key,
                                          files |-> sorted_files,
                                          index |-> file_index,
                                          comparison_size |-> comparison_size])
           /\ anomalies' = found
           /\ IF file_index < Len(sorted_files)
              THEN /\ file_index' = file_index + 1
                   /\ UNCHANGED <<pc, job_index>>
              ELSE /\ AfterJob(found)
                   /\ UNCHANGED file_index
    /\ UNCHANGED <<today, disk, discovered_jobs, report, incomplete_jobs_to_fix,
                   missing_files_to_download, files_left, calls, removed, remove_errors,
                   written, failures, frameVars, nameVars,
                   size_threshold_percent, getsize, sorted_files>>
    /\ UNCHANGED programVars

STR_review == <<"s", "t", "o", "c", "k", "_", "t", "i", "c", "k", "e", "r", "_",
                "r", "e", "v", "i", "e", "w", ".", "c", "s", "v">>

\* stage 3: the report is written; a failure of to_csv is printed
SaveReport ==
    /\ pc = "a_save"
    /\ \E saved \in BOOLEAN :
          written' = IF saved THEN written \cup {<<STR_review>>} ELSE written
    /\ pc' = "done"
    /\ UNCHANGED <<today, disk, discovered_jobs, job_index, report, incomplete_jobs_to_fix,
                   missing_files_to_download, files_left, calls, removed, remove_errors,
                   failures, frameVars, nameVars, anomalyVars>>
    /\ UNCHANGED programVars

AnomalyNext == AnomalyScan \/ AnalyzeJob \/ AnalyzeFile \/ SaveReport

SpecAnomaly == AnomalyInit /\ [][AnomalyNext]_vars

\* the files the scan of the anomaly detector found for a job
FilesOf(job_key) ==
    UNION {{discovered_jobs[k].files[m] : m \in 1..Len(discovered_jobs[k].files)} :
              k \in {k \in 1..Len(discovered_jobs) : discovered_jobs[k].job_key = job_key}}

AnalysisOver == pc \in {"a_save", "done"}

\* C12: the partitions of a job are compared in the order of their start
\* dates; with both neighbours the comparison size is (size[i-1] + size[i+1]) / 2,
\* for the first file it is size[i+1], for the last one size[i-1]; once the
\* analysis is over, a job of two or more partitions has one comparison for
\* every index and a job of one partition has none.
C12_ComparisonSize ==
    /\ \A c \in {comparisons[k] : k \in 1..Len(comparisons)} :
          LET n == Len(c.files)
              i == c.index
              cs == c.comparison_size
              size(k) == getsize[c.files[k].path]
          IN  /\ n >= 2
              /\ {c.files[k] : k \in 1..n} = FilesOf(c.job_key)
              /\ Cardinality(FilesOf(c.job_key)) = n
              /\ \A k \in 1..(n - 1) :
                     DateKey(c.files[k].date) <= DateKey(c.files[k + 1].date)
              /\ (1 < i /\ i < n) => 2 * cs.num = cs.den * (size(i - 1) + size(i + 1))
              /\ i = 1 => cs.num = cs.den * size(2)
              /\ i = n => cs.num = cs.den * size(n - 1)
    /\ AnalysisOver =>
          \A j \in 1..Len(discovered_jobs) :
              LET n == Len(discovered_jobs[j].files)
                  mine == {k \in 1..Len(comparisons) :
                              comparisons[k].job_key = discovered_jobs[j].job_key}
              IN  IF n < 2 THEN mine = {}
                  ELSE /\ Cardinality(mine) = n
                       /\ {comparisons[k].index : k \in mine} = 1..n

\* the analysis is over: the middle file of three was compared with 52.5, the
\* average of 25 and 80, and the job of one partition was not compared
C12_Witness ==
    /\ AnalysisOver
    /\ \E k \in 1..Len(comparisons) :
          /\ Len(comparisons[k].files) = 3
          /\ comparisons[k].index = 2
          /\ comparisons[k].comparison_size = [num |-> 105, den |-> 2]
    /\ \E j \in 1..Len(discovered_jobs) : Len(discovered_jobs[j].files) = 1

\* the paths of the anomaly records
AnomalyPaths == {anomalies[k].full_path : k \in 1..Len(anomalies)}

\* C13: once the analysis is over, a compared partition is in the anomaly
\* list if and only if its comparison size is not zero and
\* (comparison - size) * 100 / comparison is strictly greater than the
\* threshold; a partition that was not compared is not in the list.
C13_ThresholdExact ==
    AnalysisOver =>
        /\ \A c \in {comparisons[k] : k \in 1..Len(comparisons)} :
              LET cs == c.comparison_size
                  size == getsize[c.files[c.index].path]
              IN  (c.files[c.index].path \in AnomalyPaths) <=>
                      /\ cs.num # 0
                      /\ (cs.num - cs.den * size) * 100 > size_threshold_percent * cs.num
        /\ \A p \in AnomalyPaths :
              \E k \in 1..Len(comparisons) :
                  comparisons[k].files[comparisons[k].index].path = p

(***************************************************************************)
(* SpecWorkflow: workflow_helpers.run_target_based_workflow over the rows  *)
(* of the targets file, with the processors of the stocks workflows.       *)
(***************************************************************************)
\* most rows of the targets file
MaxTargets == 3

\* a cell of the column ticker_duration_months as pandas reads it: a number,
\* or NaN where the cell is empty
NaNCell == [nan |-> TRUE, value |-> 0]
IntCell(n) == [nan |-> FALSE, value |-> n]

\* bool(cell): zero is false, every other number and NaN are true
Truthy(cell) == cell.nan \/ cell.value # 0

WorkflowRows ==
    {[ticker |-> <<"A">>, ticker_fidelity |-> STR_1_day,
      ticker_duration_months |-> IntCell(1)],
     [ticker |-> <<"B">>, ticker_fidelity |-> STR_1_minute,
      ticker_duration_months |-> IntCell(2)],
     [ticker |-> <<"A">>, ticker_fidelity |-> STR_1_minute,
      ticker_duration_months |-> IntCell(0)],
     [ticker |-> <<"B">>, ticker_fidelity |-> STR_1_day,
      ticker_duration_months |-> NaNCell]}

WorkflowTargets == UNION {[1..n -> WorkflowRows] : n \in 1..MaxTargets}

\* the processors that are handed to run_target_based_workflow
Processors == {"trading_history", "fundamentals", "corporate_actions"}

\* the dict of endpoints a processor loops over, in insertion order
ApiFuncs(processor) ==
    IF processor = "fundamentals"
    THEN <<"financials", "short_interest", "short_volume">>
    ELSE IF processor = "corporate_actions"
    THEN <<"ipo", "splits", "dividends", "ticker_events">>
    ELSE <<>>

\* what get_paginated_data meets on its first page: a payload whose 'results'
\* is a list with rows, a payload without rows or a failed request (both give
\* []), or a payload whose 'results' is null (extend raises TypeError)
ApiResponses == {"rows", "empty", "null_results"}

\* 'if not all([ticker, fidelity, duration_months])' and the try around int()
IsSkipped(job) ==
    \/ ~Truthy(job.ticker_duration_months)
    \/ job.ticker_duration_months.nan

WorkflowInit ==
    /\ today \in ToolTodays
    /\ disk = {}
    /\ pc = "w_loop"
    /\ discovered_jobs = <<>>
    /\ job_index = 0
    /\ report = <<>>
    /\ incomplete_jobs_to_fix = <<>>
    /\ missing_files_to_download = <<>>
    /\ files_left = {}
    /\ calls = <<>>
    /\ removed = {}
    /\ remove_errors = {}
    /\ written = {}
    /\ failures = 0
    /\ job_frame = NoFrame
    /\ chunks = <<>>
    /\ NameIdle
    /\ AnomalyIdle
    /\ ConfigIdle
    /\ LoggerIdle
    /\ FilingsIdle
    /\ RestIdle
    /\ targets \in WorkflowTargets
    /\ job_processor_func \in Processors
    /\ target_index = 1
    /\ api_index = 0
    /\ processor_calls = <<>>
    /\ csv_saved = {}

\* 'for job in targets' has no row left: the closing message
WorkflowFinished ==
    /\ pc = "w_loop"
    /\ target_index > Len(targets)
    /\ pc' = "done"
    /\ UNCHANGED <<today, disk, discovered_jobs, job_index, report, incomplete_jobs_to_fix,
                   missing_files_to_download, files_left, calls, removed, remove_errors,
                   written, failures, frameVars, nameVars, anomalyVars, workflowVars>>
    /\ UNCHANGED notWorkflowVars

\* a row with a missing value or a duration that is no number: 'continue'
SkipTarget ==
    /\ pc = "w_loop"
    /\ target_index <= Len(targets)
    /\ IsSkipped(targets[target_index])
    /\ target_index' = target_index + 1
    /\ UNCHANGED <<today, disk, pc, discovered_jobs, job_index, report,
                   incomplete_jobs_to_fix, missing_files_to_download, files_left, calls,
                   removed, remove_errors, written, failures, frameVars, nameVars,
                   anomalyVars, targets, job_processor_func, api_index,
                   processor_calls, csv_saved>>
    /\ UNCHANGED notWorkflowVars

\* job_processor_func(job, base_output_path, start_date_str, end_date_str):
\* the call stands outside every try statement of the workflow
CallProcessor ==
    /\ pc = "w_loop"
    /\ target_index <= Len(targets)
    /\ ~IsSkipped(targets[target_index])
    /\ LET job == targets[target_index]
           start_date == StrfTime(RefetchStart(today, job.ticker_duration_months.value))
           end_date == StrfTime(today)
       IN  /\ processor_calls' = Append(processor_calls,
                                        [index |-> target_index,
                                         ticker |-> job.ticker,
                                         start_date |-> start_date,
                                         end_date |-> end_date])
           /\ IF job_processor_func = "trading_history"
              THEN /\ calls' = Append(calls, [ticker |-> job.ticker,
                                              fidelity |-> job.ticker_fidelity,
                                              start_date |-> start_date,
                                              end_date |-> end_date])
                   /\ job_frame' = JobFrame(disk, job.ticker, job.ticker_fidelity,
                                            start_date, end_date)
                   /\ chunks' = <<>>
                   /\ pc' = "w_download"
                   /\ UNCHANGED api_index
              ELSE /\ api_index' = 1
                   /\ pc' = "w_fetch"
                   /\ UNCHANGED <<calls, job_frame, chunks>>
    /\ target_index' = target_index + 1
    /\ UNCHANGED <<today, disk, discovered_jobs, job_index, report, incomplete_jobs_to_fix,
                   missing_files_to_download, files_left, removed, remove_errors, written,
                   failures, nameVars, anomalyVars, targets, job_processor_func,
                   csv_saved>>
    /\ UNCHANGED notWorkflowVars

\* _process_fundamentals_job and _process_corporate_actions_job, one iteration
\* of 'for name, api_func in ...items()': data = api_func(...), then the save,
\* whose own failure save_to_csv prints and swallows.  No try statement stands
\* between the TypeError of all_results.extend(None) and the top of the run.
FetchAndSave ==
    /\ pc = "w_fetch"
    /\ LET call == processor_calls[Len(processor_calls)]
           name == ApiFuncs(job_processor_func)[api_index]
       IN  \E response \in ApiResponses, to_csv_ok \in BOOLEAN :
              /\ response # "rows" => to_csv_ok
              /\ csv_saved' = IF response = "rows" /\ to_csv_ok
                              THEN csv_saved \cup {<<job_processor_func, name, call.ticker>>}
                              ELSE csv_saved
              /\ IF response = "null_results"
                 THEN /\ pc' = "raised"
                      /\ UNCHANGED api_index
                 ELSE IF api_index < Len(ApiFuncs(job_processor_func))
                 THEN /\ api_index' = api_index + 1
                      /\ UNCHANGED pc
                 ELSE /\ api_index' = 0
                      /\ pc' = "w_loop"
    /\ UNCHANGED <<today, disk, discovered_jobs, job_index, report, incomplete_jobs_to_fix,
                   missing_files_to_download, files_left, calls, removed, remove_errors,
                   written, failures, frameVars, nameVars, anomalyVars, targets,
                   job_processor_func, target_index, processor_calls>>
    /\ UNCHANGED notWorkflowVars

WorkflowNext ==
    \/ WorkflowFinished
    \/ SkipTarget
    \/ CallProcessor
    \/ FetchAndSave
    \/ ProcessChunk
    \/ ReturnFromJob

SpecWorkflow == WorkflowInit /\ [][WorkflowNext]_vars

\* the run is over: the closing message was printed, or an exception left it
WorkflowOver == targets # <<>> /\ pc \in {"done", "raised"}

\* the rows of the targets file that were handed to the processor
ProcessedRows == {processor_calls[k].index : k \in 1..Len(processor_calls)}

\* C14: a failure in one job is caught at that job's boundary and the run
\* continues: when the run of the target-based workflow is over, every row of
\* the targets file that is not skipped as invalid has been handed to the
\* processor, whatever happened to the rows before it.
C14_LaterJobsProcessed ==
    WorkflowOver =>
        /\ pc = "done"
        /\ \A i \in 1..Len(targets) : ~IsSkipped(targets[i]) => i \in ProcessedRows

(***************************************************************************)
(* SpecLogger: project_core.error_logger in a process that registers the   *)
(* handler and logs errors in any order, and then exits normally.          *)
(***************************************************************************)
\* most calls of register_error_handler in one process
MaxRegistrations == 3
\* most calls of log_error in one process
MaxErrors == 3

\* a row an earlier process has left in the error log
OldRow == [script_name |-> "earlier_run.py", ticker |-> "A", fidelity |-> "trades",
           failed_chunk_start |-> "2024-01-01", failed_chunk_end |-> "2024-01-31",
           reason |-> "timeout"]

\* the arguments of the log_error calls of a process
LogErrorArgs ==
    {<<t, "trades", "2024-02-01", "2024-02-29", r, "redownload_failed_trades.py">> :
        t \in {"A", "B"}, r \in {"timeout", "no space left"}}

\* log_error has six positional parameters and no default: a call with any
\* other number of arguments raises TypeError before the body runs
LogErrorRaises(args) == Len(args) # 6

\* log_error: error_details is appended to _ERRORS
LogError(errors, args) ==
    Append(errors, [script_name |-> args[6], ticker |-> args[1], fidelity |-> args[2],
                    failed_chunk_start |-> args[3], failed_chunk_end |-> args[4],
                    reason |-> args[5]])

\* mutant: the handler is registered on every call
ShouldRegister_Always(is_registered) == TRUE

\* 'if not _IS_REGISTERED'
ShouldRegister(is_registered) == ~is_registered

\* save_errors_to_csv: the message it prints
SaveMessage(errors, path, log, to_csv_ok) ==
    IF errors = <<>> THEN "no new errors"
    ELSE IF NoPath(path) THEN "no base_output_path"
    ELSE IF ~to_csv_ok THEN "failed to save"
    ELSE IF log.exists THEN "appended"
    ELSE "created"

\* save_errors_to_csv: the error log it leaves
SaveErrorsToCsv(errors, path, log, to_csv_ok) ==
    IF SaveMessage(errors, path, log, to_csv_ok) \in {"appended", "created"}
    THEN [exists |-> TRUE, rows |-> log.rows \o errors]
    ELSE log

\* the functions atexit runs, one after the other; oks[k] tells whether the
\* to_csv of the k-th call succeeds
RECURSIVE RunAtExit(_, _, _, _, _, _)
RunAtExit(k, errors, path, log, messages, oks) ==
    IF k = 0 THEN [log |-> log, messages |-> messages]
    ELSE RunAtExit(k - 1, errors, path,
                   SaveErrorsToCsv(errors, path, log, oks[k]),
                   Append(messages, SaveMessage(errors, path, log, oks[k])),
                   oks)

LoggerInit ==
    /\ today = NoDate
    /\ disk = {}
    /\ pc = "l_run"
    /\ discovered_jobs = <<>>
    /\ job_index = 0
    /\ report = <<>>
    /\ incomplete_jobs_to_fix = <<>>
    /\ missing_files_to_download = <<>>
    /\ files_left = {}
    /\ calls = <<>>
    /\ removed = {}
    /\ remove_errors = {}
    /\ written = {}
    /\ failures = 0
    /\ job_frame = NoFrame
    /\ chunks = <<>>
    /\ NameIdle
    /\ AnomalyIdle
    /\ WorkflowIdle
    /\ FilingsIdle
    /\ RestIdle
    /\ tool = ""
    /\ base_output_path \in {"None", "", "data"}
    /\ POLYGON_API_KEY = "key"
    /\ config_reports = <<>>
    /\ exit_code = -1
    /\ ERRORS = <<>>
    /\ IS_REGISTERED = FALSE
    /\ atexit_funcs = <<>>
    /\ register_calls = 0
    /\ error_log \in {NoErrorLog, [exists |-> TRUE, rows |-> <<OldRow>>]}
    /\ save_messages = <<>>

\* register_error_handler()
RegisterErrorHandler ==
    /\ pc = "l_run"
    /\ register_calls < MaxRegistrations
    /\ register_calls' = register_calls + 1
    /\ IF ShouldRegister(IS_REGISTERED)
       THEN /\ atexit_funcs' = Append(atexit_funcs, "save_errors_to_csv")
            /\ IS_REGISTERED' = TRUE
       ELSE UNCHANGED <<atexit_funcs, IS_REGISTERED>>
    /\ UNCHANGED <<toolVars, frameVars, nameVars, anomalyVars, notLoggerVars, configVars,
                   ERRORS, error_log, save_messages>>

\* log_error(ticker, fidelity, start_date, end_date, reason, script_name)
LogErrorCall ==
    /\ pc = "l_run"
    /\ Len(ERRORS) < MaxErrors
    /\ \E args \in LogErrorArgs :
          /\ ~LogErrorRaises(args)
          /\ ERRORS' = LogError(ERRORS, args)
    /\ UNCHANGED <<toolVars, frameVars, nameVars, anomalyVars, notLoggerVars, configVars,
                   IS_REGISTERED, atexit_funcs, register_calls, error_log, save_messages>>

\* the interpreter exits normally: atexit runs every registered function
ProcessExit ==
    /\ pc = "l_run"
    /\ pc' = "exited"
    /\ \E oks \in [1..Len(atexit_funcs) -> BOOLEAN] :
          LET run == RunAtExit(Len(atexit_funcs), ERRORS, base_output_path, error_log,
                               <<>>, oks)
          IN  /\ error_log' = run.log
              /\ save_messages' = run.messages
    /\ UNCHANGED <<today, disk, discovered_jobs, job_index, report, incomplete_jobs_to_fix,
                   missing_files_to_download, files_left, calls, removed, remove_errors,
                   written, failures, frameVars, nameVars, anomalyVars, notLoggerVars,
                   configVars, ERRORS, IS_REGISTERED, atexit_funcs, register_calls>>

LoggerNext == RegisterErrorHandler \/ LogErrorCall \/ ProcessExit

SpecLogger == LoggerInit /\ [][LoggerNext]_vars

\* the rows of the error log that this process wrote
NewRows == SelectSeq(error_log.rows, LAMBDA r : r # OldRow)

\* every call of save_errors_to_csv of this exit found a place to write and
\* wrote
SavedAll == \A k \in 1..Len(save_messages) : save_messages[k] \in {"appended", "created"}

MaxDownloads == 3

FilingRows == {[ticker |-> "A", filing_date |-> "2024-01-10"],
               [ticker |-> "B", filing_date |-> "2024-02-01"]}

FilingLists == UNION {[1..n -> FilingRows] : n \in 1..MaxDownloads}

\* what the try block of download_and_save_filing meets: the filing is saved,
\* the response has no content, requests raises, or anything else raises
\* (the parser, open or write)
FilingOutcomes == {"saved", "empty", "request_error", "unexpected_error"}

\* the arguments of the log_error calls at lines 63, 68 and 72
FilingLogArgs(job, message) == <<job.ticker, job.filing_date, "N/A", "download_url", message>>

\* download_and_save_filing for one row and one outcome of its try block: the
\* error collection it leaves, and whether an exception leaves the function.
\* The log_error call of the else branch stands inside the try block, so that
\* what it raises reaches the handler at line 69; what a handler raises leaves
\* the function.
DownloadAndSaveFiling(errors, job, outcome) ==
    LET args == FilingLogArgs(job, outcome)
    IN  IF outcome = "saved" THEN [errors |-> errors, raised |-> FALSE]
        ELSE IF ~LogErrorRaises(args)
        THEN [errors |-> LogError(errors, args), raised |-> FALSE]
        ELSE IF outcome = "empty" /\ ~LogErrorRaises(FilingLogArgs(job, "TypeError"))
        THEN [errors |-> LogError(errors, FilingLogArgs(job, "TypeError")),
              raised |-> FALSE]
        ELSE [errors |-> errors, raised |-> TRUE]

FilingsInit ==
    /\ today = NoDate
    /\ disk = {}
    /\ pc = "f_run"
    /\ discovered_jobs = <<>>
    /\ job_index = 0
    /\ report = <<>>
    /\ incomplete_jobs_to_fix = <<>>
    /\ missing_files_to_download = <<>>
    /\ files_left = {}
    /\ calls = <<>>
    /\ removed = {}
    /\ remove_errors = {}
    /\ written = {}
    /\ failures = 0
    /\ job_frame = NoFrame
    /\ chunks = <<>>
    /\ NameIdle
    /\ AnomalyIdle
    /\ WorkflowIdle
    /\ ConfigIdle
    /\ LoggerIdle
    /\ RestIdle
    /\ download_jobs \in FilingLists
    /\ filing_results = [k \in DOMAIN download_jobs |-> "queued"]
    /\ thread_errors = {}

\* one submitted call of download_and_save_filing runs in a worker thread,
\* and main takes its future: 'except Exception' at line 100 prints
RunDownload ==
    /\ pc = "f_run"
    /\ \E k \in DOMAIN download_jobs, outcome \in FilingOutcomes :
          /\ filing_results[k] = "queued"
          /\ LET run == DownloadAndSaveFiling(ERRORS, download_jobs[k], outcome)
             IN  /\ ERRORS' = run.errors
                 /\ thread_errors' = IF run.raised THEN thread_errors \cup {k}
                                     ELSE thread_errors
          /\ filing_results' = [filing_results EXCEPT ![k] = outcome]
    /\ UNCHANGED <<toolVars, frameVars, nameVars, anomalyVars, workflowVars, configVars,
                   IS_REGISTERED, atexit_funcs, register_calls, error_log, save_messages,
                   download_jobs>>
    /\ UNCHANGED restVars

\* every future is done: the executor is left and main returns
FilingsFinished ==
    /\ pc = "f_run"
    /\ \A k \in DOMAIN download_jobs : filing_results[k] # "queued"
    /\ pc' = "done"
    /\ UNCHANGED <<today, disk, discovered_jobs, job_index, report, incomplete_jobs_to_fix,
                   missing_files_to_download, files_left, calls, removed, remove_errors,
                   written, failures, frameVars, nameVars, anomalyVars, programVars>>

FilingsNext == RunDownload \/ FilingsFinished

SpecFilings == FilingsInit /\ [][FilingsNext]_vars

\* the rows of the download list whose download failed
FailedDownloads ==
    {k \in DOMAIN download_jobs : filing_results[k] \notin {"queued", "saved"}}

\* C15: no failure is silently swallowed: when the filings download is over,
\* the error collection holds one record for every row whose download
\* failed, with the ticker and the filing date of the row.
C15_FailuresLogged ==
    (download_jobs # <<>> /\ pc = "done") =>
        /\ Len(ERRORS) = Cardinality(FailedDownloads)
        /\ \A k \in FailedDownloads :
              \E e \in 1..Len(ERRORS) :
                 /\ ERRORS[e].ticker = download_jobs[k].ticker
                 /\ ERRORS[e].fidelity = download_jobs[k].filing_date

(***************************************************************************)
(* SpecConfig: the three maintenance tools run as __main__, from the read  *)
(* of the configuration to the exit of the interpreter, with and without   *)
(* base_output_path in config.ini and POLYGON_API_KEY in the environment.  *)
(***************************************************************************)
MaintenanceTools == {"major", "minor", "anomaly"}

\* the sizes of the files when the anomaly detector is the tool
ConfigGetsize(t, d) == IF t = "anomaly" THEN [d -> {18, 100}] ELSE {<<>>}

ConfigInit ==
    /\ today \in ToolTodays
    /\ disk \in ToolDisks
    /\ pc = "start"
    /\ discovered_jobs = <<>>
    /\ job_index = 0
    /\ report = <<>>
    /\ incomplete_jobs_to_fix = <<>>
    /\ missing_files_to_download = <<>>
    /\ files_left = {}
    /\ calls = <<>>
    /\ removed = {}
    /\ remove_errors = {}
    /\ written = {}
    /\ failures = 0
    /\ job_frame = NoFrame
    /\ chunks = <<>>
    /\ NameIdle
    /\ tool \in MaintenanceTools
    /\ getsize \in ConfigGetsize(tool, disk)
    /\ size_threshold_percent = (IF tool = "anomaly" THEN DefaultThreshold ELSE 0)
    /\ sorted_files = <<>>
    /\ file_index = 0
    /\ comparisons = <<>>
    /\ anomalies = <<>>
    /\ WorkflowIdle
    /\ FilingsIdle
    /\ LoggerIdle
    /\ RestIdle
    /\ base_output_path \in {"None", "", "data"}
    /\ POLYGON_API_KEY \in {"", "key"}
    /\ config_reports = <<>>
    /\ exit_code = -1

\* get_output_path_from_config prints when the key is absent; the tool prints
\* when the value it got is None or empty
PathReports(path) ==
    (IF path = "None" THEN <<"file_manager: 'base_output_path' not found">> ELSE <<>>)
    \o (IF NoPath(path) THEN <<"tool: 'base_output_path' not found. Exiting.">> ELSE <<>>)

\* the head of a tool: register_error_handler() in the two repair tools, then
\* the read of base_output_path and 'if not base_output_path: ... return'
StartTool ==
    /\ pc = "start"
    /\ IF tool \in {"major", "minor"}
       THEN /\ register_calls' = register_calls + 1
            /\ IF ShouldRegister(IS_REGISTERED)
               THEN /\ atexit_funcs' = Append(atexit_funcs, "save_errors_to_csv")
                    /\ IS_REGISTERED' = TRUE
               ELSE UNCHANGED <<atexit_funcs, IS_REGISTERED>>
       ELSE UNCHANGED <<register_calls, atexit_funcs, IS_REGISTERED>>
    /\ config_reports' = config_reports \o PathReports(base_output_path)
    /\ pc' = IF NoPath(base_output_path) THEN "done"
             ELSE IF tool = "major" THEN "scan"
             ELSE IF tool = "minor" THEN "m_scan"
             ELSE "a_scan"
    /\ UNCHANGED <<today, disk, discovered_jobs, job_index, report, incomplete_jobs_to_fix,
                   missing_files_to_download, files_left, calls, removed, remove_errors,
                   written, failures, frameVars, nameVars, anomalyVars, workflowVars,
                   filingsVars, tool, base_output_path, POLYGON_API_KEY, exit_code,
                   ERRORS, error_log, save_messages>>
    /\ UNCHANGED restVars

\* one iteration of the month loop of _process_trading_history_job when the
\* API key is not set: get_api_key logs its warning and returns None, the
\* stream yields nothing, nothing is saved and the loop goes on
ProcessChunkNoKey ==
    /\ pc \in {"download", "m_download", "w_download"}
    /\ job_frame.running
    /\ ~job_frame.aborted
    /\ DateKey(job_frame.current_date) <= DateKey(job_frame.overall_end_date)
    /\ POLYGON_API_KEY = ""
    /\ chunks' = Append(chunks,
           <<ChunkStart(job_frame.current_date, job_frame.overall_start_date),
             ChunkEnd(job_frame.current_date, job_frame.overall_end_date)>>)
    /\ config_reports' = Append(config_reports, "get_api_key: 'POLYGON_API_KEY' not found")
    /\ job_frame' = [job_frame EXCEPT !.current_date = NextMonth(job_frame.current_date),
                                      !.is_first_chunk = FALSE]
    /\ UNCHANGED <<toolVars, nameVars, anomalyVars, workflowVars, filingsVars, loggerVars,
                   tool, base_output_path, POLYGON_API_KEY, exit_code>>
    /\ UNCHANGED restVars

\* the tool function has returned, or an exception has left it: the
\* interpreter runs the atexit functions and exits, with status 0 after a
\* return and 1 after an uncaught exception
InterpreterExit ==
    /\ tool \in MaintenanceTools
    /\ pc \in {"done", "raised"}
    /\ pc' = "exited"
    /\ exit_code' = IF pc = "raised" THEN 1 ELSE 0
    /\ \E oks \in [1..Len(atexit_funcs) -> BOOLEAN] :
          LET run == RunAtExit(Len(atexit_funcs), ERRORS, base_output_path, error_log,
                               <<>>, oks)
          IN  /\ error_log' = run.log
              /\ save_messages' = run.messages
    /\ UNCHANGED <<today, disk, discovered_jobs, job_index, report, incomplete_jobs_to_fix,
                   missing_files_to_download, files_left, calls, removed, remove_errors,
                   written, failures, frameVars, nameVars, anomalyVars, workflowVars,
                   filingsVars, tool, base_output_path, POLYGON_API_KEY, config_reports,
                   ERRORS, IS_REGISTERED, atexit_funcs, register_calls>>
    /\ UNCHANGED restVars

ConfigNext ==
    \/ StartTool
    \/ Next
    \/ MinorNext
    \/ AnomalyNext
    \/ ProcessChunkNoKey
    \/ InterpreterExit

SpecConfig == ConfigInit /\ [][ConfigNext]_vars

\* C17: configuration errors are fatal: a missing base output path or API key
\* is reported once, and from the moment it has been reported the run does
\* nothing but stop - no file is deleted or written, no stage is entered and
\* no further report is made.
C17_ConfigErrorsFatal ==
    [][/\ Len(config_reports') <= 1
       /\ config_reports # <<>> =>
             /\ disk' = disk
             /\ removed' = removed
             /\ written' = written
             /\ pc' \in {"done", "exited"}]_vars

\* C18: a maintenance tool that completes normally exits with code 0, and one
\* that stops because base_output_path is missing exits with code 1.
C18_ExitCodes ==
    (pc = "exited" /\ tool \in MaintenanceTools) =>
        exit_code = (IF NoPath(base_output_path) THEN 1 ELSE 0)

(***************************************************************************)
(* SpecRequests: one request sent through each of the three functions of   *)
(* api_handler that talk to a remote API, against every sequence of        *)
(* answers of the server.                                                  *)
(***************************************************************************)
\* max_retries of execute_sec_extractor_request
max_retries == 4

RequestHelpers == {"_execute_session_get", "execute_sec_api_query",
                   "execute_sec_extractor_request"}

\* what an attempt can meet: a status code ("204": a status below 400 other
\* than 200), the body "processing" with status 200, a timeout, or another
\* failure of the connection
Responses(h) ==
    IF h = "_execute_session_get"
    THEN {"200", "429", "http_error", "timeout", "connection_error"}
    ELSE IF h = "execute_sec_api_query"
    THEN {"200", "429", "http_error", "connection_error"}
    ELSE {"200", "processing", "204", "429", "404", "http_error", "connection_error"}

NoSleep == 0

\* _execute_session_get: raise_for_status turns a 429 into an HTTPError, a
\* RequestException: the error is logged and None is returned
SessionGet(response) ==
    IF response = "200"
    THEN [sleep |-> NoSleep, logs |-> <<>>, result |-> "content"]
    ELSE IF response = "timeout"
    THEN [sleep |-> NoSleep, logs |-> <<"warning: request timed out">>, result |-> "None"]
    ELSE [sleep |-> NoSleep, logs |-> <<"error: error during API request">>,
          result |-> "None"]

\* execute_sec_api_query: a 429 is logged, slept on for 30 seconds, and None
\* is returned
SecApiQuery(response) ==
    IF response = "200"
    THEN [sleep |-> NoSleep, logs |-> <<>>, result |-> "content"]
    ELSE IF response = "429"
    THEN [sleep |-> 30000,
          logs |-> <<"error: HTTP error during SEC API query",
                     "warning: rate limit hit (429), sleeping for 30 seconds">>,
          result |-> "None"]
    ELSE [sleep |-> NoSleep, logs |-> <<"error: error during SEC API query">>,
          result |-> "None"]

\* mutant: no attempt is taken for the last one
SecExtractor_NoLimit(a, response) ==
    IF response \in {"200", "404", "http_error"}
    THEN [sleep |-> NoSleep, logs |-> <<>>,
          result |-> IF response = "200" THEN "content" ELSE "None"]
    ELSE [sleep |-> 1500, logs |-> <<"info: retrying">>, result |-> "pending"]

\* execute_sec_extractor_request, the iteration 'attempt' (from 0) of
\* 'for attempt in range(max_retries)'; the result "pending" stands for
\* 'continue' and for the fall through to the next iteration, and after the
\* last iteration the function returns None
SecExtractor(a, response) ==
    LET last == ~(a < max_retries - 1)
        next == IF last THEN "None" ELSE "pending"
    IN  IF response = "200"
        THEN [sleep |-> NoSleep, logs |-> <<>>, result |-> "content"]
        ELSE IF response = "processing"
        THEN IF last
             THEN [sleep |-> NoSleep, logs |-> <<"warning: max retries reached">>,
                   result |-> "None"]
             ELSE [sleep |-> 1500, logs |-> <<"info: still processing, retrying">>,
                   result |-> "pending"]
        ELSE IF response = "204"
        THEN \* raise_for_status does not raise: the iteration just ends
             [sleep |-> NoSleep, logs |-> <<>>, result |-> next]
        ELSE IF response = "429"
        THEN [sleep |-> 10000,
              logs |-> <<"warning: rate limit hit (429), sleeping for 10 seconds and retrying">>,
              result |-> next]
        ELSE IF response = "404"
        THEN [sleep |-> NoSleep, logs |-> <<>>, result |-> "None"]
        ELSE IF response = "http_error"
        THEN [sleep |-> NoSleep, logs |-> <<"error: HTTP error extracting">>,
              result |-> "None"]
        ELSE [sleep |-> IF last THEN NoSleep ELSE 1000 * Pow2(a),
              logs |-> <<"error: connection error">>,
              result |-> next]

RequestInit ==
    /\ today = NoDate
    /\ disk = {}
    /\ pc = "r_send"
    /\ discovered_jobs = <<>>
    /\ job_index = 0
    /\ report = <<>>
    /\ incomplete_jobs_to_fix = <<>>
    /\ missing_files_to_download = <<>>
    /\ files_left = {}
    /\ calls = <<>>
    /\ removed = {}
    /\ remove_errors = {}
    /\ written = {}
    /\ failures = 0
    /\ job_frame = NoFrame
    /\ chunks = <<>>
    /\ NameIdle
    /\ AnomalyIdle
    /\ WorkflowIdle
    /\ ConfigIdle
    /\ LoggerIdle
    /\ FilingsIdle
    /\ SecIdle
    /\ ExtraIdle
    /\ helper \in RequestHelpers
    /\ attempt = 0
    /\ responses = <<>>
    /\ sleeps = <<>>
    /\ request_logs = <<>>
    /\ request_result = "pending"

\* one attempt of the request: the server answers, the function logs, sleeps,
\* and returns or goes to its next attempt
SendRequest ==
    /\ pc = "r_send"
    /\ request_result = "pending"
    /\ \E response \in Responses(helper) :
          LET step == IF helper = "_execute_session_get" THEN SessionGet(response)
                      ELSE IF helper = "execute_sec_api_query" THEN SecApiQuery(response)
                      ELSE SecExtractor(attempt, response)
          IN  /\ responses' = Append(responses, response)
              /\ sleeps' = IF step.sleep = NoSleep THEN sleeps
                           ELSE Append(sleeps, [attempt |-> attempt + 1, ms |-> step.sleep])
              /\ request_logs' = request_logs \o step.logs
              /\ request_result' = step.result
              /\ pc' = IF step.result = "pending" THEN "r_send" ELSE "done"
    /\ attempt' = attempt + 1
    /\ UNCHANGED <<today, disk, discovered_jobs, job_index, report, incomplete_jobs_to_fix,
                   missing_files_to_download, files_left, calls, removed, remove_errors,
                   written, failures, frameVars, nameVars, anomalyVars, workflowVars,
                   configVars, loggerVars, filingsVars, secVars, extraVars, helper>>

RequestNext == SendRequest

SpecRequests == RequestInit /\ [][RequestNext]_vars

\* the sleeps that followed the k-th attempt
SleepsAfter(k) == {sleeps[i].ms : i \in {j \in 1..Len(sleeps) : sleeps[j].attempt = k}}

\* C19: every HTTP 429 answer is followed by a sleep of one fixed length and
\* by another attempt of the same request; only the answer to the last of a
\* small bounded number of attempts ends the request, which is then
\* abandoned with a line in the log.
C19_RateLimitRetry ==
    \A k \in 1..Len(responses) :
        responses[k] = "429" =>
            /\ \E ms \in {10000, 30000} : SleepsAfter(k) = {ms}
            /\ \/ k < Len(responses)
               \/ request_result = "pending"
               \/ /\ k = max_retries
                  /\ request_result = "None"
                  /\ request_logs # <<>>

(***************************************************************************)
(* fetch_filings.main_workflow: the sequential discovery of the filings of *)
(* every target, then the extraction of their sections by the executor.    *)
(***************************************************************************)
\* most rows of the input CSV
MaxSecTargets == 2

\* the rows of the input CSV: a ticker, and whether its CIK is no number
SecRows == {[ticker |-> "A", NEEDS_LOOKUP |-> FALSE],
            [ticker |-> "B", NEEDS_LOOKUP |-> FALSE],
            [ticker |-> "C", NEEDS_LOOKUP |-> TRUE]}

SecTargetLists == UNION {[1..n -> SecRows] : n \in 1..MaxSecTargets}

\* the accession numbers discover_filings returns for a target: none (also
\* when the query fails), one, one that two pages repeat, or two
DiscoveryResults == {<<>>, <<"a1">>, <<"a1", "a1">>, <<"a1", "a2">>}

\* the filings of a target, tagged with _target_ticker
TaggedFilings(ticker, accessions) ==
    [k \in 1..Len(accessions) |-> [accessionNo |-> accessions[k], ticker |-> ticker]]

\* unique_filings.values(): the first filing of every (accessionNo, ticker),
\* in the order of discovery
RECURSIVE UniqueFilings(_)
UniqueFilings(filings) ==
    IF filings = <<>> THEN <<>>
    ELSE LET front == UniqueFilings(SubSeq(filings, 1, Len(filings) - 1))
             f == filings[Len(filings)]
         IN  IF \E k \in 1..Len(front) : front[k] = f THEN front ELSE Append(front, f)

\* mutant: the executor is started as soon as the first target is discovered
DiscoveryDone_AfterFirst(index, rows) == index > 1

\* 'for target in targets' has run over every row
DiscoveryDone(index, rows) == index > Len(rows)

\* what extract_and_process_filing gives for a filing: records, no record, or
\* an exception
ExtractOutcomes == {"records", "none", "exception"}

FetchFilingsInit ==
    /\ today = NoDate
    /\ disk = {}
    /\ pc = "x_discover"
    /\ discovered_jobs = <<>>
    /\ job_index = 0
    /\ report = <<>>
    /\ incomplete_jobs_to_fix = <<>>
    /\ missing_files_to_download = <<>>
    /\ files_left = {}
    /\ calls = <<>>
    /\ removed = {}
    /\ remove_errors = {}
    /\ written = {}
    /\ failures = 0
    /\ job_frame = NoFrame
    /\ chunks = <<>>
    /\ NameIdle
    /\ AnomalyIdle
    /\ WorkflowIdle
    /\ ConfigIdle
    /\ LoggerIdle
    /\ FilingsIdle
    /\ RequestIdle
    /\ sec_targets \in SecTargetLists
    /\ discover_index = 1
    /\ all_filings_metadata = <<>>
    /\ submitted = <<>>
    /\ extracted = <<>>
    /\ collected = {}
    /\ jsonl_saved = {}
    /\ InterruptIdle
    /\ MoreIdle

toolDataVars == <<today, disk, discovered_jobs, job_index, report, incomplete_jobs_to_fix,
                  missing_files_to_download, files_left, calls, removed, remove_errors,
                  written, failures>>
notSecVars == <<frameVars, nameVars, anomalyVars, workflowVars, configVars, loggerVars,
                filingsVars, requestVars, moreVars>>

\* stage 1, one iteration of 'for target in targets': a row without a CIK is
\* skipped, the filings of the others are discovered and tagged
DiscoverTarget ==
    /\ pc = "x_discover"
    /\ ~DiscoveryDone(discover_index, sec_targets)
    /\ discover_index <= Len(sec_targets)
    /\ LET target == sec_targets[discover_index]
       IN  IF target.NEEDS_LOOKUP
           THEN UNCHANGED all_filings_metadata
           ELSE \E accessions \in DiscoveryResults :
                   all_filings_metadata' =
                       all_filings_metadata \o TaggedFilings(target.ticker, accessions)
    /\ discover_index' = discover_index + 1
    /\ UNCHANGED <<toolVars, notSecVars, sec_targets, submitted, extracted,
                   collected, jsonl_saved, interruptVars>>

\* after the loop: the filings are de-duplicated; without any the workflow
\* returns, otherwise the executor is entered
BeginExtraction ==
    /\ pc = "x_discover"
    /\ DiscoveryDone(discover_index, sec_targets)
    /\ pc' = IF UniqueFilings(all_filings_metadata) = <<>> THEN "done" ELSE "x_submit"
    /\ UNCHANGED <<toolDataVars, notSecVars, secVars, interruptVars>>

\* one executor.submit of the dict comprehension, in the order of
\* unique_filings.values(); after the last the as_completed loop is entered
SubmitFiling ==
    /\ pc = "x_submit"
    /\ LET unique_filings == UniqueFilings(all_filings_metadata)
       IN  /\ Len(submitted) < Len(unique_filings)
           /\ submitted' = Append(submitted, unique_filings[Len(submitted) + 1])
           /\ pc' = IF Len(submitted') = Len(unique_filings) THEN "x_extract" ELSE "x_submit"
    /\ UNCHANGED <<toolDataVars, notSecVars, sec_targets, discover_index,
                   all_filings_metadata, extracted, collected, jsonl_saved, interruptVars>>

\* the executor is alive: between its creation and the end of the process
ExecutorAlive == pc \in {"x_submit", "x_extract", "x_shutdown", "x_unwind"}

\* tasks the worker has started: the finished ones and the running one
Started == Len(extracted) + (IF running # 0 THEN 1 ELSE 0)

\* the work queue holds no future that still has to run
QueueDrained == \A k \in (Started + 1)..Len(submitted) : k \in cancelled

\* stage 2, the worker (MAX_WORKERS = 1) takes the next future of the work
\* queue; a cancelled future is not run
WorkerTakes ==
    /\ ExecutorAlive
    /\ running = 0
    /\ Len(extracted) < Len(submitted)
    /\ Len(extracted) + 1 \notin cancelled
    /\ running' = Len(extracted) + 1
    /\ UNCHANGED <<toolVars, notSecVars, secVars, interrupt, cancelled>>

\* stage 2, the worker: extract_and_process_filing of the running task ends
WorkerExtracts ==
    /\ ExecutorAlive
    /\ running # 0
    /\ \E outcome \in ExtractOutcomes : extracted' = Append(extracted, outcome)
    /\ running' = 0
    /\ UNCHANGED <<toolVars, notSecVars, sec_targets, discover_index,
                   all_filings_metadata, submitted, collected, jsonl_saved,
                   interrupt, cancelled>>

\* stage 2, main: it takes a finished future from as_completed and saves its
\* records; an exception of the task and an IOError of the save are logged
MainCollects ==
    /\ pc = "x_extract"
    /\ \E k \in 1..Len(extracted), saved_ok \in BOOLEAN :
          /\ k \notin collected
          /\ extracted[k] # "records" => saved_ok
          /\ collected' = collected \cup {k}
          /\ jsonl_saved' = IF extracted[k] = "records" /\ saved_ok
                            THEN jsonl_saved \cup {submitted[k]}
                            ELSE jsonl_saved
    /\ UNCHANGED <<toolVars, notSecVars, sec_targets, discover_index,
                   all_filings_metadata, submitted, extracted, interruptVars>>

\* every future has been taken: the executor is left, the workflow is complete
ExtractionComplete ==
    /\ pc = "x_extract"
    /\ collected = 1..Len(submitted)
    /\ pc' = "done"
    /\ UNCHANGED <<toolDataVars, frameVars, nameVars, anomalyVars, programVars>>

FetchFilingsNext ==
    \/ DiscoverTarget
    \/ BeginExtraction
    \/ SubmitFiling
    \/ WorkerTakes
    \/ WorkerExtracts
    \/ MainCollects
    \/ ExtractionComplete

(***************************************************************************)
(* SpecStages: the tools that have a discovery stage - the two repair      *)
(* tools and the SEC filings fetcher.                                      *)
(***************************************************************************)
StagesInit == ToolsInit \/ FetchFilingsInit

StagesNext == ToolsNext \/ FetchFilingsNext

SpecStages == StagesInit /\ [][StagesNext]_vars

\* a processing action has happened: a file was deleted (or its deletion was
\* tried), a download job was called or has written, an extraction task was
\* submitted
ProcessingBegun ==
    \/ removed # {}
    \/ remove_errors # {}
    \/ written # {}
    \/ calls # <<>>
    \/ job_frame # NoFrame
    \/ submitted # <<>>

\* the scan is over and every discovered job is validated; every target of
\* the filings fetcher is discovered
DiscoveryOver ==
    /\ pc \notin {"scan", "validate", "m_scan", "m_validate", "x_discover"}
    /\ Len(report) = Len(discovered_jobs)
    /\ sec_targets # <<>> => discover_index > Len(sec_targets)

configDataVars == <<tool, base_output_path, POLYGON_API_KEY, config_reports>>

\* the futures executor.shutdown(cancel_futures=True) finds in the work queue
PendingFutures == {k \in 1..Len(submitted) : k > Started}

\* KeyboardInterrupt inside the 'try' of the as_completed loop (also inside
\* save_records: 'except Exception' lets it pass): the handler cancels the
\* queued futures and waits for the worker
InterruptInLoop ==
    /\ pc = "x_extract"
    /\ interrupt = "none"
    /\ interrupt' = "caught"
    /\ cancelled' = PendingFutures
    /\ pc' = "x_shutdown"
    /\ UNCHANGED <<toolDataVars, notSecVars, secVars, running>>

\* executor.shutdown(wait=True, cancel_futures=True) returns when the worker
\* has ended; sys.exit(1)
ShutdownReturns ==
    /\ pc = "x_shutdown"
    /\ running = 0
    /\ QueueDrained
    /\ pc' = "exited"
    /\ exit_code' = 1
    /\ UNCHANGED <<toolDataVars, frameVars, nameVars, anomalyVars, workflowVars,
                   configDataVars, loggerVars, filingsVars, restVars>>

\* KeyboardInterrupt inside the dict comprehension, which is outside the
\* 'try': it leaves the 'with' block, whose __exit__ is shutdown(wait=True)
InterruptInSubmit ==
    /\ pc = "x_submit"
    /\ interrupt = "none"
    /\ interrupt' = "uncaught"
    /\ pc' = "x_unwind"
    /\ UNCHANGED <<toolDataVars, notSecVars, secVars, running, cancelled>>

\* __exit__ returns when the worker has run the whole queue; the interrupt
\* reaches 'except KeyboardInterrupt' of __main__: sys.exit(0)
UnwindReturns ==
    /\ pc = "x_unwind"
    /\ running = 0
    /\ QueueDrained
    /\ pc' = "exited"
    /\ exit_code' = 0
    /\ UNCHANGED <<toolDataVars, frameVars, nameVars, anomalyVars, workflowVars,
                   configDataVars, loggerVars, filingsVars, restVars>>

InterruptNext ==
    \/ FetchFilingsNext
    \/ InterruptInLoop
    \/ ShutdownReturns
    \/ InterruptInSubmit
    \/ UnwindReturns

SpecInterrupt == FetchFilingsInit /\ [][InterruptNext]_vars

\* C21: cooperative cancellation: once an interrupt has arrived while
\* extraction tasks are outstanding, no task that had not started is started
\* (they are cancelled and never run), a running task is left to finish, the
\* process exits only when no task runs, and no record saved on disk is
\* removed.
C21_CooperativeCancellation ==
    [][/\ (interrupt # "none" /\ submitted # <<>>) => running' \in {running, 0}
       /\ pc' = "exited" => running' = 0
       /\ jsonl_saved \subseteq jsonl_saved']_vars

\* the same, for an interrupt that arrives in the as_completed loop only
C21_InLoopOnly ==
    [][/\ interrupt = "caught" => running' \in {running, 0}
       /\ pc' = "exited" => running' = 0
       /\ jsonl_saved \subseteq jsonl_saved']_vars

(***************************************************************************)
(* SpecBatch: the batch loop of the analytical scans,                      *)
(* run_data_integrity_check and run_liquidity_screening.  Both slice the   *)
(* discovered tickers into batches, give every batch a process pool of     *)
(* its own and collect the results with as_completed.  The batch size and  *)
(* the number of workers are scaled down.                                  *)
(***************************************************************************)
MaxTickers == 4

BATCH_SIZE == 3

MAX_WORKERS == 2

Screeners == {"data_integrity_check", "liquidity_screener"}

notMoreVars == <<frameVars, nameVars, anomalyVars, workflowVars, configVars, loggerVars,
                 filingsVars, requestVars, secVars, interruptVars, streamVars>>

\* mutant: the slice starts one item early
Batch_Overlapping(i, n) == {k \in 1..n : i <= k /\ k <= i + BATCH_SIZE}

\* tickers_files_list[i:i + BATCH_SIZE], as the positions (from 1) of its items
Batch(i, n) == {k \in 1..n : i < k /\ k <= i + BATCH_SIZE}

\* mutant: a broken pool is handled like any other exception
IsBrokenProcessPool_Never(state) == FALSE

\* future.result() raises BrokenProcessPool
IsBrokenProcessPool(state) == state = "broken"

\* a future as_completed can yield
FutureDone(state) == state \in {"result", "exception", "broken"}

\* the entry of all_results for a ticker whose future raised
ErrorResult(program, k) ==
    [ticker |-> k,
     status |-> IF program = "liquidity_screener" THEN "Execution Error" ELSE "Error"]

BatchInit ==
    /\ today = NoDate
    /\ disk = {}
    /\ pc = "b_start"
    /\ discovered_jobs = <<>>
    /\ job_index = 0
    /\ report = <<>>
    /\ incomplete_jobs_to_fix = <<>>
    /\ missing_files_to_download = <<>>
    /\ files_left = {}
    /\ calls = <<>>
    /\ removed = {}
    /\ remove_errors = {}
    /\ written = {}
    /\ failures = 0
    /\ job_frame = NoFrame
    /\ chunks = <<>>
    /\ NameIdle
    /\ AnomalyIdle
    /\ WorkflowIdle
    /\ ConfigIdle
    /\ LoggerIdle
    /\ FilingsIdle
    /\ RequestIdle
    /\ SecIdle
    /\ InterruptIdle
    /\ StreamIdle
    /\ screener \in Screeners
    /\ total_tickers \in 0..MaxTickers
    /\ batch_start = 0
    /\ executors = {}
    /\ pool_broken = FALSE
    /\ future_state = [k \in 1..total_tickers |-> "new"]
    /\ future_to_ticker = {}
    /\ submit_count = [k \in 1..total_tickers |-> 0]
    /\ taken = {}
    /\ all_results = <<>>
    /\ aborted = FALSE

\* discovery: without any ticker the run returns
BatchDiscover ==
    /\ pc = "b_start"
    /\ pc' = IF total_tickers = 0 THEN "done" ELSE "b_batch"
    /\ UNCHANGED <<toolDataVars, notMoreVars, batchVars>>

\* 'for i in range(0, total_tickers, BATCH_SIZE)': the next batch gets a
\* process pool; after the last batch the report is written
NextBatch ==
    /\ pc = "b_batch"
    /\ IF batch_start < total_tickers
       THEN /\ executors' = executors \cup {batch_start}
            /\ pool_broken' = FALSE
            /\ future_to_ticker' = {}
            /\ taken' = {}
            /\ pc' = "b_submit"
       ELSE /\ pc' = "done"
            /\ UNCHANGED <<executors, pool_broken, future_to_ticker, taken>>
    /\ UNCHANGED <<toolDataVars, notMoreVars, screener, total_tickers, batch_start,
                   future_state, submit_count, all_results, aborted>>

\* one executor.submit of 'for ticker, files in batch'; a broken pool raises,
\* which nothing catches; after the last submit the results are awaited
SubmitTicker ==
    /\ pc = "b_submit"
    /\ LET batch == Batch(batch_start, total_tickers)
           left == batch \ future_to_ticker
       IN  IF left = {}
           THEN /\ pc' = "b_collect"
                /\ UNCHANGED <<executors, future_state, future_to_ticker, submit_count>>
           ELSE IF pool_broken
           THEN /\ pc' = "raised"
                /\ executors' = executors \ {batch_start}
                /\ UNCHANGED <<future_state, future_to_ticker, submit_count>>
           ELSE LET k == CHOOSE x \in left : \A y \in left : x <= y
                IN  /\ future_state' = [future_state EXCEPT ![k] = "pending"]
                    /\ future_to_ticker' = future_to_ticker \cup {k}
                    /\ submit_count' = [submit_count EXCEPT ![k] = @ + 1]
                    /\ pc' = "b_submit"
                    /\ UNCHANGED executors
    /\ UNCHANGED <<toolDataVars, notMoreVars, screener, total_tickers, batch_start,
                   pool_broken, taken, all_results, aborted>>

\* a worker process of the pool takes the oldest queued call, while fewer
\* than MAX_WORKERS calls run
PoolWorkerStarts ==
    /\ executors # {}
    /\ ~pool_broken
    /\ Cardinality({k \in future_to_ticker : future_state[k] = "running"}) < MAX_WORKERS
    /\ \E k \in future_to_ticker :
          /\ future_state[k] = "pending"
          /\ \A j \in future_to_ticker : future_state[j] = "pending" => k <= j
          /\ future_state' = [future_state EXCEPT ![k] = "running"]
    /\ UNCHANGED <<toolVars, notMoreVars, screener, total_tickers, batch_start, executors,
                   pool_broken, future_to_ticker, submit_count, taken, all_results, aborted>>

\* a running call ends: with its return value, or with an exception
PoolWorkerEnds ==
    /\ executors # {}
    /\ ~pool_broken
    /\ \E k \in future_to_ticker, outcome \in {"result", "exception"} :
          /\ future_state[k] = "running"
          /\ future_state' = [future_state EXCEPT ![k] = outcome]
    /\ UNCHANGED <<toolVars, notMoreVars, screener, total_tickers, batch_start, executors,
                   pool_broken, future_to_ticker, submit_count, taken, all_results, aborted>>

\* a worker process dies abruptly: the pool is broken, every future that
\* is not done gets BrokenProcessPool
PoolBreaks ==
    /\ executors # {}
    /\ ~pool_broken
    /\ future_to_ticker # {}
    /\ pool_broken' = TRUE
    /\ future_state' = [k \in 1..total_tickers |->
                           IF k \in future_to_ticker /\ future_state[k] \in {"pending", "running"}
                           THEN "broken" ELSE future_state[k]]
    /\ UNCHANGED <<toolVars, notMoreVars, screener, total_tickers, batch_start, executors,
                   future_to_ticker, submit_count, taken, all_results, aborted>>

\* one iteration of 'for future in as_completed(future_to_ticker)': the
\* result is appended; BrokenProcessPool ends the run; any other exception
\* is appended as an error result
CollectResult ==
    /\ pc = "b_collect"
    /\ \E k \in future_to_ticker \ taken :
          /\ FutureDone(future_state[k])
          /\ taken' = taken \cup {k}
          /\ IF future_state[k] = "result"
             THEN /\ all_results' = Append(all_results, [ticker |-> k, status |-> "ok"])
                  /\ UNCHANGED <<pc, executors, aborted>>
             ELSE IF IsBrokenProcessPool(future_state[k])
             THEN /\ aborted' = TRUE
                  /\ executors' = executors \ {batch_start}
                  /\ pc' = "done"
                  /\ UNCHANGED all_results
             ELSE /\ all_results' = Append(all_results, ErrorResult(screener, k))
                  /\ UNCHANGED <<pc, executors, aborted>>
    /\ UNCHANGED <<toolDataVars, notMoreVars, screener, total_tickers, batch_start,
                   pool_broken, future_state, future_to_ticker, submit_count>>

\* as_completed is exhausted: the 'with' block is left, which shuts the pool
\* down; the loop goes to the next batch
LeavePool ==
    /\ pc = "b_collect"
    /\ taken = future_to_ticker
    /\ executors' = executors \ {batch_start}
    /\ batch_start' = batch_start + BATCH_SIZE
    /\ pc' = "b_batch"
    /\ UNCHANGED <<toolDataVars, notMoreVars, screener, total_tickers, pool_broken,
                   future_state, future_to_ticker, submit_count, taken, all_results, aborted>>

BatchNext ==
    \/ BatchDiscover
    \/ NextBatch
    \/ SubmitTicker
    \/ PoolWorkerStarts
    \/ PoolWorkerEnds
    \/ PoolBreaks
    \/ CollectResult
    \/ LeavePool

SpecBatch == BatchInit /\ [][BatchNext]_vars

\* the number (from 0) of the batch a ticker belongs to
BatchNo(k) == (k - 1) \div BATCH_SIZE

RunningTasks == {k \in 1..total_tickers : future_state[k] = "running"}

UnfinishedTasks == {k \in 1..total_tickers : future_state[k] \in {"pending", "running"}}

\* C22: batch boundary of the analytical scans: the tickers are processed in
\* consecutive batches of at most BATCH_SIZE; at any time at most
\* MAX_WORKERS tasks run, all of the same batch; every task of a batch has
\* completed and its pool is shut down before a task of the next batch is
\* submitted; no ticker is submitted twice, and a run that ends without a
\* broken pool has submitted every discovered ticker exactly once.
C22_BatchBoundary ==
    /\ Cardinality(executors) <= 1
    /\ Cardinality(future_to_ticker) <= BATCH_SIZE
    /\ \A j, k \in future_to_ticker : BatchNo(j) = BatchNo(k)
    /\ \A k \in future_to_ticker : \A j \in 1..k : BatchNo(j) = BatchNo(k) => j \in future_to_ticker
    /\ Cardinality(RunningTasks) <= MAX_WORKERS
    /\ \A j, k \in RunningTasks : BatchNo(j) = BatchNo(k)
    /\ \A k \in UnfinishedTasks : executors = {BatchNo(k) * BATCH_SIZE}
    /\ \A j, k \in 1..total_tickers :
          (BatchNo(j) < BatchNo(k) /\ future_state[k] # "new") =>
              /\ FutureDone(future_state[j])
              /\ BatchNo(j) * BATCH_SIZE \notin executors
    /\ \A k \in 1..total_tickers : submit_count[k] <= 1
    /\ (pc = "done" /\ ~aborted) => \A k \in 1..total_tickers : submit_count[k] = 1

\* a finished run over two batches, the first of them full, in which the
\* exception of one task was recorded
C22_Witness ==
    /\ pc = "done"
    /\ ~aborted
    /\ total_tickers > BATCH_SIZE
    /\ Len(all_results) = total_tickers
    /\ \E k \in 1..total_tickers : future_state[k] = "exception"

\* MAX_WORKERS tasks of one batch run while another task of it is queued
C22_WitnessWorkers ==
    /\ Cardinality(RunningTasks) = MAX_WORKERS
    /\ \E k \in future_to_ticker : future_state[k] = "pending"
    /\ batch_start = 0

\* C23: a broken worker pool aborts the batch: when as_completed yields a
\* future whose result reports a broken process pool, the run ends there:
\* no result is collected and no task is submitted afterwards; any other
\* exception of a task is recorded as an error result for that ticker and
\* the run goes on.
C23_BrokenPoolAborts ==
    [][/\ \A k \in taken' \ taken :
             IF future_state[k] = "broken"
             THEN /\ aborted'
                  /\ pc' = "done"
                  /\ all_results' = all_results
             ELSE IF future_state[k] = "exception"
             THEN /\ all_results' = Append(all_results, ErrorResult(screener, k))
                  /\ ~aborted'
                  /\ pc' = "b_collect"
             ELSE TRUE
       /\ aborted =>
             /\ all_results' = all_results
             /\ submit_count' = submit_count
             /\ taken' = taken
             /\ executors' = {}
             /\ pc' = "done"]_vars

\* a run that recorded an exception of one task, went on, and was then
\* aborted by a broken pool with a result left uncollected
C23_Witness ==
    /\ aborted
    /\ \E k \in 1..Len(all_results) : all_results[k].status \in {"Error", "Execution Error"}
    /\ \E k \in future_to_ticker \ taken : future_state[k] = "result"
    /\ \E k \in 1..total_tickers : future_state[k] = "new"

(***************************************************************************)
(* SpecStream: one run of _process_trading_history_job, page by page.      *)
(* Every monthly chunk gets a generator (stream_aggregate_data or          *)
(* stream_trades_data); its pages are flattened into one CSV (day) or      *)
(* appended to one parquet file by save_stream_to_parquet.  A page is the  *)
(* number of the request that brought it and the number of its rows.       *)
(***************************************************************************)
MaxPages == 2

DEBUG_SAMPLE_ROWS == 1000

\* the generators yield no empty page
PageRows == {1, DEBUG_SAMPLE_ROWS, DEBUG_SAMPLE_ROWS + 1}

\* ranges that start and end inside a month, at its first and at its last
\* day, within one day, across February of a leap year and across a year end
StreamRanges == {<<<<2024, 1, 15>>, <<2024, 1, 31>>>>,
                 <<<<2024, 1, 15>>, <<2024, 2, 10>>>>,
                 <<<<2024, 1, 1>>, <<2024, 3, 15>>>>,
                 <<<<2024, 2, 10>>, <<2024, 2, 10>>>>,
                 <<<<2024, 1, 31>>, <<2024, 2, 29>>>>,
                 <<<<2023, 12, 5>>, <<2024, 1, 1>>>>}

notStreamVars == <<nameVars, anomalyVars, workflowVars, configVars, loggerVars, filingsVars,
                   requestVars, secVars, interruptVars, batchVars>>

StreamInit ==
    /\ today = NoDate
    /\ \E fidelity \in Fidelities, range \in StreamRanges :
          /\ disk \in {{}, {DebugPath(<<"A">>, fidelity)}}
          /\ job_frame = JobFrame(disk, <<"A">>, fidelity, StrfTime(range[1]), StrfTime(range[2]))
    /\ pc = "s_job"
    /\ discovered_jobs = <<>>
    /\ job_index = 0
    /\ report = <<>>
    /\ incomplete_jobs_to_fix = <<>>
    /\ missing_files_to_download = <<>>
    /\ files_left = {}
    /\ calls = <<>>
    /\ removed = {}
    /\ remove_errors = {}
    /\ written = {}
    /\ failures = 0
    /\ chunks = <<>>
    /\ NameIdle
    /\ AnomalyIdle
    /\ WorkflowIdle
    /\ ConfigIdle
    /\ LoggerIdle
    /\ FilingsIdle
    /\ RequestIdle
    /\ SecIdle
    /\ InterruptIdle
    /\ BatchIdle
    /\ StreamIdle

\* mutant: the callback is prepared for every chunk
PrepareDebugCallback_EveryChunk(f) == ~f.debug_file_exists /\ f.timespan # "day"

\* 'if is_first_chunk and not debug_file_exists and timespan != 'day''
PrepareDebugCallback(f) == f.is_first_chunk /\ ~f.debug_file_exists /\ f.timespan # "day"

\* first_chunk[:DEBUG_SAMPLE_ROWS]
SampleRows(rows) == IF rows > DEBUG_SAMPLE_ROWS THEN DEBUG_SAMPLE_ROWS ELSE rows

\* mutant: a failed page request raises out of the generator
FailedPageRaises_Always(how) == how = "failed"

\* 'if data is None or not isinstance(data, dict): break': the generator ends
FailedPageRaises(how) == FALSE

\* the main file of the chunk the loop is at
StreamPath(f) ==
    SavePath(f.ticker, f.fidelity, f.timespan,
             StrfTime(ChunkStart(f.current_date, f.overall_start_date)),
             StrfTime(ChunkEnd(f.current_date, f.overall_end_date)))

\* f with the entry for path p set to pages
WithFile(f, p, pages) == [q \in DOMAIN f \cup {p} |-> IF q = p THEN pages ELSE f[q]]

\* the head of one iteration of 'while current_date <= overall_end_date':
\* the chunk is clamped, its generator made, the debug callback prepared
OpenStream ==
    /\ pc = "s_job"
    /\ job_frame.running
    /\ ~job_frame.aborted
    /\ DateKey(job_frame.current_date) <= DateKey(job_frame.overall_end_date)
    /\ chunks' = Append(chunks,
           <<ChunkStart(job_frame.current_date, job_frame.overall_start_date),
             ChunkEnd(job_frame.current_date, job_frame.overall_end_date)>>)
    /\ debug_callback' = PrepareDebugCallback(job_frame)
    /\ stream_pages' = <<>>
    /\ pc' = "s_page"
    /\ UNCHANGED <<today, disk, discovered_jobs, job_index, report, incomplete_jobs_to_fix,
                   missing_files_to_download, files_left, calls, removed, remove_errors,
                   written, failures, job_frame, notStreamVars, stream_ends, file_pages,
                   debug_saves, stream_logs>>

\* the generator yields a page.  day: the list comprehension takes it.
\* Otherwise one iteration of 'for i, chunk in enumerate(data_generator)':
\* the callback runs on page 0, the writer is opened by the first page and
\* the page is written
StreamYields ==
    /\ pc = "s_page"
    /\ Len(stream_pages) < MaxPages
    /\ \E rows \in PageRows :
          LET page == [no |-> Len(stream_pages) + 1, rows |-> rows]
              i == Len(stream_pages)
              path == StreamPath(job_frame)
              debug_path == DebugPath(job_frame.ticker, job_frame.fidelity)
              sampled == i = 0 /\ debug_callback
              files == IF job_frame.timespan = "day" THEN {}
                       ELSE {path} \cup (IF sampled THEN {debug_path} ELSE {})
          IN  /\ stream_pages' = Append(stream_pages, page)
              /\ debug_saves' =
                    IF job_frame.timespan # "day" /\ sampled
                    THEN Append(debug_saves, [chunk |-> Len(chunks),
                                              page |-> page.no,
                                              rows |-> SampleRows(rows),
                                              existed |-> debug_path \in disk])
                    ELSE debug_saves
              /\ file_pages' =
                    IF job_frame.timespan = "day" THEN file_pages
                    ELSE WithFile(file_pages, path,
                                  IF i = 0 THEN <<page>> ELSE Append(file_pages[path], page))
              /\ disk' = disk \cup files
              /\ written' = written \cup files
    /\ UNCHANGED <<today, pc, discovered_jobs, job_index, report, incomplete_jobs_to_fix,
                   missing_files_to_download, files_left, calls, removed, remove_errors,
                   failures, job_frame, chunks, notStreamVars, debug_callback, stream_ends,
                   stream_logs>>

\* the generator ends: the server has no further page, or the request of
\* the next page failed (timeout or HTTP error), which _execute_session_get
\* logs.  day: the rows taken are saved to the CSV, if any.  The loop goes to
\* the next month
StreamEnds ==
    /\ pc = "s_page"
    /\ \E how \in {"exhausted", "failed"} :
          LET path == StreamPath(job_frame)
              saved == job_frame.timespan = "day" /\ stream_pages # <<>>
                           /\ ~FailedPageRaises(how)
          IN  /\ stream_logs' = IF how = "failed"
                                THEN Append(stream_logs, Len(stream_pages) + 1)
                                ELSE stream_logs
              /\ stream_ends' = Append(stream_ends,
                                       [path |-> path, pages |-> stream_pages, how |-> how])
              /\ file_pages' = IF saved THEN WithFile(file_pages, path, stream_pages)
                               ELSE file_pages
              /\ disk' = IF saved THEN disk \cup {path} ELSE disk
              /\ written' = IF saved THEN written \cup {path} ELSE written
              /\ job_frame' =
                    IF FailedPageRaises(how)
                    THEN [job_frame EXCEPT !.aborted = TRUE]
                    ELSE [job_frame EXCEPT !.current_date = NextMonth(job_frame.current_date),
                                           !.is_first_chunk = FALSE]
    /\ pc' = "s_job"
    /\ UNCHANGED <<today, discovered_jobs, job_index, report, incomplete_jobs_to_fix,
                   missing_files_to_download, files_left, calls, removed, remove_errors,
                   failures, chunks, notStreamVars, debug_callback, stream_pages,
                   debug_saves>>

\* the month loop is over, or an exception was caught at line 101: the job
\* function returns
StreamJobReturns ==
    /\ pc = "s_job"
    /\ job_frame.running
    /\ \/ job_frame.aborted
       \/ DateKey(job_frame.current_date) > DateKey(job_frame.overall_end_date)
    /\ job_frame' = [job_frame EXCEPT !.running = FALSE]
    /\ pc' = "done"
    /\ UNCHANGED <<today, disk, discovered_jobs, job_index, report, incomplete_jobs_to_fix,
                   missing_files_to_download, files_left, calls, removed, remove_errors,
                   written, failures, chunks, notStreamVars, streamVars>>

StreamNext ==
    \/ OpenStream
    \/ StreamYields
    \/ StreamEnds
    \/ StreamJobReturns

SpecStream == StreamInit /\ [][StreamNext]_vars

\* C24: one-time debug sample: in a job run the DEBUG.csv file is written at
\* most once, only from the first page of the first monthly chunk and with
\* at most 1000 rows; it is not written when it existed already, and never
\* for a job of day fidelity.
C24_OneTimeDebugSample ==
    /\ Len(debug_saves) <= 1
    /\ \A k \in 1..Len(debug_saves) :
          /\ debug_saves[k].chunk = 1
          /\ debug_saves[k].page = 1
          /\ debug_saves[k].rows <= 1000
          /\ ~debug_saves[k].existed
    /\ (job_frame # NoFrame /\ job_frame.fidelity = STR_1_day) => debug_saves = <<>>

\* a finished job of minute fidelity over three months whose first page had
\* more than 1000 rows: the sample holds 1000 of them
C24_Witness ==
    /\ pc = "done"
    /\ job_frame.fidelity = STR_1_minute
    /\ Len(chunks) = 3
    /\ Len(stream_ends) = 3
    /\ \A k \in 1..3 : Len(stream_ends[k].pages) = MaxPages
    /\ stream_ends[1].pages[1].rows > 1000
    /\ Len(debug_saves) = 1
    /\ debug_saves[1].rows = 1000
    /\ DebugPath(job_frame.ticker, job_frame.fidelity) \in written

\* the streams that ended because a page request failed
FailedStreams == {k \in 1..Len(stream_ends) : stream_ends[k].how = "failed"}

\* C30: silent truncation on a failed page: when a page request fails in the
\* middle of a streamed fetch, the fetch stops without raising; the pages
\* retrieved before are written to the partition file, in the order
\* received and each once; no error record is logged; and the job goes on
\* as after a complete fetch.
C30_SilentTruncation ==
    \A k \in FailedStreams :
       LET e == stream_ends[k]
       IN  /\ job_frame.running => ~job_frame.aborted
           /\ ERRORS = <<>>
           /\ e.pages # <<>> =>
                 /\ e.path \in disk
                 /\ file_pages[e.path] = e.pages
                 /\ \A n \in 1..Len(e.pages) : e.pages[n].no = n
           /\ e.pages = <<>> => e.path \notin written
           /\ pc = "done" =>
                 Len(stream_ends) = Len(ExpectedChunks(job_frame.overall_start_date,
                                                       job_frame.overall_end_date))

\* a finished job of tick fidelity whose first chunk lost its second page:
\* the parquet file of the first month holds the first page only, the later
\* months were fetched
C30_Witness ==
    /\ pc = "done"
    /\ job_frame.fidelity = STR_tick
    /\ Len(stream_ends) = 3
    /\ stream_ends[1].how = "failed"
    /\ Len(stream_ends[1].pages) = 1
    /\ file_pages[stream_ends[1].path] = stream_ends[1].pages
    /\ stream_ends[3].how = "exhausted"
    /\ stream_logs = <<2>>

\* the same for a job of day fidelity: the CSV holds the page that arrived
C30_WitnessDay ==
    /\ pc = "done"
    /\ job_frame.fidelity = STR_1_day
    /\ FailedStreams # {}
    /\ \E k \in FailedStreams : /\ stream_ends[k].pages # <<>>
                                /\ stream_ends[k].path \in written

\* the answers after which execute_sec_extractor_request tries again
RetriedAnswers == {"processing", "204", "429", "connection_error"}

\* C25: bounded extractor retries: a call of execute_sec_extractor_request
\* sends at most 4 HTTP requests and has returned after the 4th; it returns
\* the content on the first HTTP 200 whose body is not 'processing', returns
\* None at once on a 404 or another HTTP error that is not 429, tries again
\* after 'processing', 429 and a connection error, and returns None when the
\* 4th attempt still fails or still says 'processing'.
C25_BoundedExtractorRetries ==
    helper = "execute_sec_extractor_request" =>
        /\ Len(responses) <= 4
        /\ Len(responses) = 4 => request_result # "pending"
        /\ \A k \in 1..Len(responses) :
              /\ responses[k] = "200" =>
                    /\ k = Len(responses)
                    /\ request_result = "content"
                    /\ \A j \in 1..(k - 1) : responses[j] \in RetriedAnswers
              /\ responses[k] \in {"404", "http_error"} =>
                    /\ k = Len(responses)
                    /\ request_result = "None"
              /\ (responses[k] \in RetriedAnswers /\ k < 4) =>
                    \/ k < Len(responses)
                    \/ request_result = "pending"
              /\ (responses[k] \in RetriedAnswers /\ k = 4) => request_result = "None"
        /\ request_result = "content" => responses[Len(responses)] = "200"

\* a call that met 'processing', a 429 and a connection error and whose 4th
\* attempt still said 'processing': None after four requests
C25_Witness ==
    /\ helper = "execute_sec_extractor_request"
    /\ responses = <<"processing", "429", "connection_error", "processing">>
    /\ request_result = "None"
    /\ pc = "done"

\* the expected_filename of every month of the gap detector's walk over
\* [min_start_date, today], in the order of the walk
ExpectedFileNames(ticker, fidelity, min_start_date, today_) ==
    LET w == ExpectedChunks(min_start_date, today_)
    IN  [i \in 1..Len(w) |->
            PartitionFileName(ticker, fidelity, StrfTime(w[i][1]), StrfTime(w[i][2]),
                              FileExtension(fidelity))]

DownloadPath(download) ==
    PartitionPath(download.job_details.ticker, download.job_details.ticker_fidelity,
                  StrpTime(download.start_date), StrpTime(download.end_date))

\* the download jobs a minor-repair scan of the tree d on the day today_
\* would list, over every job whose file names it can read
ScanMissing(d, today_) ==
    UNION {LET missing == MissingDownloads(FileNames(job.file_paths), job.job_key[1],
                                           job.job_key[2],
                                           MinStartDate(job.file_paths, today_), today_)
           IN  {missing[i] : i \in 1..Len(missing)} :
           job \in {j \in ScanJobs(d) : NoDate \notin StartDates(j.file_paths)}}

DownloadJobs == {missing_files_to_download[i] : i \in 1..Len(missing_files_to_download)}

\* C27: minor repair converges on the same day: every missing range handed
\* to the fetch job gives exactly one monthly chunk, the range itself, and
\* is written under the expected file name that was missing; when the tool
\* is done, a second scan with the same 'today' misses exactly the files
\* whose targeted fetch returned no rows - none at all if every fetch
\* returned rows.
C27_MinorConverges ==
    /\ (pc = "m_download" /\ job_frame # NoFrame) =>
          LET download == missing_files_to_download[job_index]
          IN  /\ Len(chunks) <= 1
              /\ chunks # <<>> =>
                    chunks[1] = <<StrpTime(download.start_date), StrpTime(download.end_date)>>
              /\ DateKey(job_frame.current_date) > DateKey(job_frame.overall_end_date)
                    => chunks # <<>>
    /\ \A p \in written :
          \E download \in DownloadJobs :
             \/ p = DownloadPath(download)
             \/ p = DebugPath(download.job_details.ticker,
                              download.job_details.ticker_fidelity)
    /\ (pc = "done" /\ report # <<>>) =>
          ScanMissing(disk, today) = {download \in DownloadJobs : DownloadPath(download) \notin written}

\* a finished minor repair that downloaded two missing months, both with
\* rows: a second scan misses nothing
C27_Witness ==
    /\ pc = "done"
    /\ Len(missing_files_to_download) >= 2
    /\ \A download \in DownloadJobs : DownloadPath(download) \in written
    /\ ScanMissing(disk, today) = {}

\* a finished minor repair one of whose fetches returned no rows: that month
\* is still missing
C27_WitnessStillMissing ==
    /\ pc = "done"
    /\ \E download \in DownloadJobs : DownloadPath(download) \notin disk
    /\ ScanMissing(disk, today) # {}

(***************************************************************************)
(* SpecRescan: the two repair tools on the day 'today' over the files a    *)
(* fetch job wrote for [start, written_day], written_day <= today.         *)
(***************************************************************************)
\* scan days: month ends of 31, 30 and 29 days, a first and a 15th
RescanTodays == {<<2024, 3, 31>>, <<2024, 3, 30>>, <<2024, 3, 1>>, <<2024, 2, 29>>,
                 <<2024, 1, 31>>, <<2024, 3, 15>>, <<2024, 4, 30>>}

\* first days of the jobs: firsts, month ends, days past the 28th
RescanStarts ==
    {<<2024, 1, 1>>, <<2024, 1, 15>>, <<2024, 1, 29>>, <<2024, 1, 30>>, <<2024, 1, 31>>,
     <<2024, 2, 1>>, <<2024, 2, 28>>, <<2024, 2, 29>>, <<2024, 3, 1>>, <<2024, 3, 14>>,
     <<2024, 3, 30>>, <<2024, 3, 31>>, <<2023, 12, 31>>, <<2023, 11, 30>>}

RescanCases ==
    {c \in [start : RescanStarts, written_day : RescanStarts \cup RescanTodays,
            scan_day : RescanTodays] :
        /\ DateKey(c.start) <= DateKey(c.written_day)
        /\ DateKey(c.written_day) <= DateKey(c.scan_day)
        /\ c.written_day \in {c.start, c.scan_day, MinusOneDay(c.scan_day)}}

WrittenOnDayInit ==
    /\ \E c \in RescanCases :
          /\ today = c.scan_day
          /\ disk = ExpectedPaths(<<"A">>, STR_1_day, c.start, c.written_day)
    /\ pc \in {"scan", "m_scan"}
    /\ discovered_jobs = <<>>
    /\ job_index = 0
    /\ report = <<>>
    /\ incomplete_jobs_to_fix = <<>>
    /\ missing_files_to_download = <<>>
    /\ files_left = {}
    /\ calls = <<>>
    /\ removed = {}
    /\ remove_errors = {}
    /\ written = {}
    /\ failures = 0
    /\ job_frame = NoFrame
    /\ chunks = <<>>
    /\ NameIdle
    /\ LaterIdle

SpecRescan == WrittenOnDayInit /\ [][ToolsNext]_vars

\* the end dates in the names of the files of a job
EndDates(file_paths) == {StrpTime(FilePatternMatch(p[3])[4]) : p \in file_paths}

\* the positions of the download jobs and of the fixes listed for a job
DownloadsOf(job_key) ==
    {i \in 1..Len(missing_files_to_download) :
        /\ missing_files_to_download[i].job_details.ticker = job_key[1]
        /\ missing_files_to_download[i].job_details.ticker_fidelity = job_key[2]}

FixesOf(job_key) ==
    {i \in 1..Len(incomplete_jobs_to_fix) :
        /\ incomplete_jobs_to_fix[i].ticker = job_key[1]
        /\ incomplete_jobs_to_fix[i].ticker_fidelity = job_key[2]}

\* C28: completeness is tied to the scan day: a scan with today = D reports
\* a job complete only if the job has a partition file whose end date is D;
\* so a job none of whose files ends on the scan day (all were written on an
\* earlier day) is reported incomplete, by the minor tool with a download
\* job, and by the major tool with a fix that deletes every file of the job
\* (a removal that fails is printed and skipped) and calls the fetch job
\* again for a range that ends today and starts no later than the job did.
C28_CompletenessTiedToScanDay ==
    \A k \in 1..Len(report) :
       LET job == discovered_jobs[k]
           verdict == report[k].verdict
       IN  /\ verdict = "complete" => today \in EndDates(job.file_paths)
           /\ (verdict = "checked" /\ ValidationOver /\ DownloadsOf(job.job_key) = {})
                 => today \in EndDates(job.file_paths)
           /\ (verdict # "error" /\ today \notin EndDates(job.file_paths)) =>
                 /\ verdict \in {"incomplete", "checked"}
                 /\ verdict = "checked" =>
                       (ValidationOver => DownloadsOf(job.job_key) # {})
                 /\ verdict = "incomplete" =>
                       /\ FixesOf(job.job_key) # {}
                       /\ \A i \in FixesOf(job.job_key) :
                             incomplete_jobs_to_fix[i].files_to_delete = job.file_paths
                       /\ pc = "done" =>
                             /\ job.file_paths \subseteq removed \cup remove_errors
                             /\ job.file_paths \cap disk \subseteq written \cup remove_errors
                             /\ \E i \in 1..Len(calls) :
                                   /\ calls[i].ticker = job.job_key[1]
                                   /\ calls[i].fidelity = job.job_key[2]
                                   /\ calls[i].end_date = StrfTime(today)
                                   /\ DateKey(StrpTime(calls[i].start_date))
                                         <= DateKey(report[k].min_start_date)

\* the major tool is done with a job that was written the day before the
\* scan, over two months: its files are deleted and fetched again
C28_Witness ==
    /\ pc = "done"
    /\ today = <<2024, 3, 1>>
    /\ Len(report) = 1
    /\ report[1].verdict = "incomplete"
    /\ report[1].min_start_date = <<2024, 1, 15>>
    /\ EndDates(discovered_jobs[1].file_paths) = {<<2024, 1, 31>>, <<2024, 2, 29>>}
    /\ removed = discovered_jobs[1].file_paths
    /\ Len(calls) = 1
    /\ Cardinality(written) >= 3

\* a job written on the scan day itself is complete
C28_WitnessComplete ==
    /\ pc = "done"
    /\ today = <<2024, 3, 31>>
    /\ Len(report) = 1
    /\ report[1].verdict = "complete"
    /\ Cardinality(discovered_jobs[1].file_paths) = 3
    /\ removed = {}

\* every day from 2022-01-01 to the end of April 2024
RescanDays == {d \in {<<y, m, n>> : y \in 2022..2024, m \in 1..12, n \in 1..31} :
                 IsDate(d) /\ DateKey(d) <= 20240430}

\* the files of a job that are on disk
OnDisk(job_key) == {p \in disk : p[1] = job_key[1] /\ p[2] = FidelityFolder(job_key[2])}

\* C29: major-repair rebuild never shortens history: with duration_months =
\* 12 * years + months + 1 of the calendar difference between today and
\* min_start_date, the start date today - duration_months months is never
\* later than min_start_date, for every min_start_date <= today; every call
\* of the fetch job made for an incomplete job has that start and ends today,
\* so its range contains [min_start_date, today]; and when every removal and
\* every fetch of the rebuild succeeded, the earliest start date of the files
\* of the job is not later than it was.
C29_RebuildNeverShortens ==
    /\ pc = "scan" =>
          \A min_start_date \in RescanDays :
             DateKey(min_start_date) <= DateKey(today) =>
                DateKey(RefetchStart(today, DurationMonths(today, min_start_date)))
                   <= DateKey(min_start_date)
    /\ \A i \in 1..Len(incomplete_jobs_to_fix) :
          i <= Len(calls) =>
             LET job == incomplete_jobs_to_fix[i]
                 before == MinStartDate(job.files_to_delete, today)
             IN  /\ calls[i].ticker = job.ticker
                 /\ calls[i].fidelity = job.ticker_fidelity
                 /\ calls[i].end_date = StrfTime(today)
                 /\ DateKey(StrpTime(calls[i].start_date)) <= DateKey(before)
                 /\ (pc = "done" /\ failures = 0 /\ remove_errors = {}) =>
                       LET files == OnDisk(<<job.ticker, job.ticker_fidelity>>)
                       IN  /\ files # {}
                           /\ DateKey(MinStartDate(files, today)) <= DateKey(before)
                           /\ \E p \in files :
                                 StrpTime(FilePatternMatch(p[3])[4]) = today

\* a job that started on 2024-01-31 is rebuilt on 2024-03-30: one whole
\* month lies between the two days, duration_months is 2, the fetch job is
\* called from 2024-01-30 and the files written start on that day
C29_Witness ==
    /\ pc = "done"
    /\ today = <<2024, 3, 30>>
    /\ failures = 0
    /\ remove_errors = {}
    /\ Len(calls) = 1
    /\ Len(incomplete_jobs_to_fix) = 1
    /\ MinStartDate(incomplete_jobs_to_fix[1].files_to_delete, today) = <<2024, 1, 31>>
    /\ incomplete_jobs_to_fix[1].ticker_duration_months = 2
    /\ calls[1].start_date = StrfTime(<<2024, 1, 30>>)
    /\ MinStartDate(OnDisk(<<<<"A">>, STR_1_day>>), today) = <<2024, 1, 30>>

====
